---- MODULE Spec2Model ----
(***************************************************************************)
(* Backtester (src/backend/engine.py) and the parts of PerformanceAnalyzer *)
(* (src/backend/analytics.py) its result is built from.                    *)
(*                                                                         *)
(* Conventions                                                             *)
(*  - Rows are numbered from 1 (pandas row i is row i+1 here).             *)
(*  - Prices are integers counting ticks of 2^-16, so every price, sum and *)
(*    half of a price used below is exactly representable as a float and   *)
(*    the float comparisons of the code agree with the integer ones here.  *)
(*  - Values that went through round(x, 4) count units of 10^-4.           *)
(*  - A candle keeps the fields the engine reads (time, low, close); open, *)
(*    high and volume are never read and never NaN.                        *)
(***************************************************************************)
EXTENDS Integers, Sequences, FiniteSets, TLC

VARIABLES
    data,            \* run(data, ...): the caller's candle list
    request,         \* run(..., request, ...): BacktestRequest
    strategy_logic,  \* run(..., strategy_logic): StrategyLogic dict or None
    pc,              \* "start" | "loop" | "done" | "raised"
    pathway,         \* "none" | "default" | "dynamic"
    df,              \* the frame the trade loop iterates (after dropna)
    k,               \* position of the loop in df (next row to process)
    position,        \* <<>> (None) or <<position dict>>
    trades,          \* list[Trade] built by the loop
    result,          \* <<>> until run returns, then <<BacktestResult>>
    call,            \* <<>> in a run; the arguments of a direct call of a
                     \* component function otherwise (result holds what
                     \* it returned)
    backtester       \* the fields of the Backtester instance (self)

vars == <<data, request, strategy_logic, pc, pathway, df, k, position, trades, result,
          call, backtester>>

----------------------------------------------------------------------------
(* Bounds of the input space                                               *)

\* rows a candle list may have beyond the minimum sma_slow + 10
MaxExtra == 2
\* number of trailing rows whose close is chosen freely
MaxFree == 4

\* 1.0 in ticks
Unit == 2^16
\* closes: 1.0, 1.0 + 2^-15 (a move smaller than 0.00005) and 2.0
Closes == {Unit, Unit + 2, 2 * Unit}
\* periodic shapes of the leading rows
Patterns == { <<2 * Unit>>,
              <<2 * Unit, 2 * Unit, Unit, Unit>>,
              <<Unit, Unit, Unit + 2, 2 * Unit, 2 * Unit, Unit>> }

----------------------------------------------------------------------------
(* Arithmetic helpers                                                      *)

Abs(x) == IF x < 0 THEN -x ELSE x

Sign(x) == IF x > 0 THEN 1 ELSE IF x < 0 THEN -1 ELSE 0

RECURSIVE SumRange(_, _, _)
\* f[lo] + ... + f[hi]
SumRange(f, lo, hi) == IF lo > hi THEN 0 ELSE f[hi] + SumRange(f, lo, hi - 1)

\* n / d rounded to the nearest integer, ties to even (Python round), d > 0
RoundDiv(n, d) ==
    LET a == Abs(n)
        q == a \div d
        r == a % d
        m == IF 2 * r > d THEN q + 1
             ELSE IF 2 * r < d THEN q
             ELSE IF q % 2 = 0 THEN q ELSE q + 1
    IN  Sign(n) * m

\* round(x, 4) of a price difference x held in ticks; the result counts 10^-4
\* (x / 2^16 * 10^4 = x * 625 / 4096)
Round4Ticks(x) == RoundDiv(x * 625, 4096)

\* round(pnl / entry_price * 100, 4); the result counts 10^-4 percent
PnlPercent(pnl, entry_price) ==
    LET a  == Abs(pnl) * 100
        ip == a \div entry_price
        r  == a % entry_price
    IN  Sign(pnl) * (ip * 10000 + RoundDiv(r * 10000, entry_price))

----------------------------------------------------------------------------
(* Series values: a float that is NaN, or the exact quotient num / den     *)

NaN == [nan |-> TRUE, num |-> 0, den |-> 1]

Val(n, d) == [nan |-> FALSE, num |-> n, den |-> d]

\* float comparisons: any comparison with NaN is False
Gt(a, b) == ~a.nan /\ ~b.nan /\ a.num * b.den > b.num * a.den

Lt(a, b) == ~a.nan /\ ~b.nan /\ a.num * b.den < b.num * a.den

Ge(a, b) == ~a.nan /\ ~b.nan /\ a.num * b.den >= b.num * a.den

Le(a, b) == ~a.nan /\ ~b.nan /\ a.num * b.den <= b.num * a.den

Eq(a, b) == ~a.nan /\ ~b.nan /\ a.num * b.den = b.num * a.den

\* the close column of a candle list
CloseOf(candles) == [i \in 1..Len(candles) |-> candles[i].close]

----------------------------------------------------------------------------
(* IndicatorFactory                                                        *)

\* sma: rolling(window=period).mean() at row i
Sma(closes, period, i) ==
    IF i < period THEN NaN
    ELSE Val(SumRange(closes, i - period + 1, i), period)

\* delta.where(delta > 0, 0) at row j: the first row's NaN delta becomes 0
GainAt(closes, j) ==
    IF j = 1 THEN 0
    ELSE IF closes[j] - closes[j - 1] > 0 THEN closes[j] - closes[j - 1] ELSE 0

\* -delta.where(delta < 0, 0) at row j
LossAt(closes, j) ==
    IF j = 1 THEN 0
    ELSE IF closes[j] - closes[j - 1] < 0 THEN closes[j - 1] - closes[j] ELSE 0

\* rsi at row i: rs = gain / loss, rsi = 100 - 100 / (1 + rs); the two
\* rolling means share the divisor, so rs is the quotient of the window sums;
\* x / 0.0 is inf for x > 0 and NaN for x = 0
Rsi(closes, period, i) ==
    IF i < period THEN NaN
    ELSE LET g == SumRange([j \in 1..Len(closes) |-> GainAt(closes, j)], i - period + 1, i)
             l == SumRange([j \in 1..Len(closes) |-> LossAt(closes, j)], i - period + 1, i)
         IN  IF l = 0 THEN (IF g = 0 THEN NaN ELSE Val(100, 1))
             ELSE Val(100 * g, g + l)

----------------------------------------------------------------------------
(* Strings of a strategy specification                                     *)

\* name.upper() / name.lower() on the indicator names in use
Upper(name) ==
    CASE name \in {"SMA", "sma"} -> "SMA"
      [] name \in {"RSI", "rsi"} -> "RSI"
      [] name \in {"EMA", "ema"} -> "EMA"
      [] name \in {"MACD", "macd"} -> "MACD"
      [] OTHER -> "VWAP"

Lower(name) ==
    CASE name \in {"SMA", "sma"} -> "sma"
      [] name \in {"RSI", "rsi"} -> "rsi"
      [] name \in {"EMA", "ema"} -> "ema"
      [] name \in {"MACD", "macd"} -> "macd"
      [] OTHER -> "vwap"

\* `sub in text.lower()` on the rule texts in use
Contains(sub, text) ==
    CASE sub = "rsi"       -> text \in {"rsi", "RSI", "rsi_crossover"}
      [] sub = "crossover" -> text \in {"sma_crossover", "rsi_crossover"}
      [] sub = "cross"     -> text \in {"sma_crossover", "rsi_crossover", "golden cross"}
      [] sub = "oversold"  -> text \in {"oversold", "RSI oversold"}
      [] OTHER             -> FALSE

\* a column name f"{base}_{period}" (period 0: the bare base)
ColName(base, period) == [base |-> base, period |-> period]

----------------------------------------------------------------------------
(* Frame columns                                                           *)
(* A computed column is [name, kind, window]; kind and window say how its  *)
(* values derive from the close column.                                    *)

Column(name, kind, window) == [name |-> name, kind |-> kind, window |-> window]

\* the column names of a set of columns (df.columns)
Names(columns) == {c.name : c \in columns}

\* the columns one entry of strategy_logic['indicators'] assigns
IndicatorColumn(ind) ==
    LET col_name == ColName(Lower(ind.name), ind.period)
    IN  CASE Upper(ind.name) = "RSI" -> {Column(col_name, "rsi", ind.period)}
          [] Upper(ind.name) = "EMA" -> {Column(col_name, "ema", ind.period)}
          [] Upper(ind.name) = "SMA" -> {Column(col_name, "sma", ind.period)}
          [] Upper(ind.name) = "MACD" ->
                {Column(ColName("macd", 0), "ema", 0),
                 Column(ColName("macd_signal", 0), "ema", 0),
                 Column(ColName("macd_hist", 0), "ema", 0)}
          [] OTHER -> {}

\* Step 1 of _execute_dynamic_strategy: every indicator column
IndicatorColumns(logic) ==
    UNION {IndicatorColumn(logic.indicators[n]) : n \in 1..Len(logic.indicators)}

\* the value of a column at row i (ewm columns are never NaN and no rule
\* reads their values, so only sma and rsi columns have one here)
ColumnValue(col, closes, i) ==
    CASE col.kind = "sma" -> Sma(closes, col.window, i)
      [] col.kind = "rsi" -> Rsi(closes, col.window, i)

\* whether a column is NaN at row i
ColumnIsNaN(col, closes, i) ==
    CASE col.kind = "ema" -> FALSE
      [] OTHER -> ColumnValue(col, closes, i).nan

----------------------------------------------------------------------------
(* SignalEvaluator                                                         *)

\* an operand of a condition: a string (a column name) or a number
NameOperand(name) == [text |-> TRUE, name |-> name, number |-> 0]

NumberOperand(v) == [text |-> FALSE, name |-> ColName("", 0), number |-> v]

\* evaluate_condition: the operand names a column of the frame
Resolves(columns, operand) == operand.text /\ operand.name \in Names(columns)

\* evaluate_condition: the operand is broadcast as a string (it is a string
\* and names no column of the frame)
Literal(columns, operand) == operand.text /\ ~Resolves(columns, operand)

\* the place of a string in string order, among the strings broadcast here
\* ('rsi_14' < 'vwap_20')
TextRank(name) == CASE name.base = "rsi" -> 1 [] name.base = "vwap" -> 2

\* evaluate_condition: the operand's series at row j; an operand that names
\* a column is that column, a number is broadcast, and so is any other
\* string (held by its place in string order)
OperandAt(columns, closes, operand, j) ==
    IF Resolves(columns, operand)
    THEN ColumnValue(CHOOSE c \in columns : c.name = operand.name, closes, j)
    ELSE IF operand.text THEN Val(TextRank(operand.name), 1)
    ELSE Val(operand.number, 1)

\* a string series is compared with a numeric one
Mixed(columns, cond) == Literal(columns, cond.left) # Literal(columns, cond.right)

\* evaluate_condition raises (on a frame with a row): an ordering comparison
\* of a string with a number is a TypeError; '==' of the two is False
ConditionRaises(columns, cond) == Mixed(columns, cond) /\ cond.operator # "=="

\* COMPARATORS[operator](left_series, right_series) at row i; shift(1) is
\* NaN on the first row; an unknown operator falls back to '>'
Compare(operator, columns, closes, left, right, i) ==
    LET a == OperandAt(columns, closes, left, i)
        b == OperandAt(columns, closes, right, i)
        pa == IF i = 1 THEN NaN ELSE OperandAt(columns, closes, left, i - 1)
        pb == IF i = 1 THEN NaN ELSE OperandAt(columns, closes, right, i - 1)
    IN  CASE operator = "<"  -> Lt(a, b)
          [] operator = ">=" -> Ge(a, b)
          [] operator = "<=" -> Le(a, b)
          [] operator = "==" -> Literal(columns, left) = Literal(columns, right) /\ Eq(a, b)
          [] operator = "crosses_above" -> Le(pa, pb) /\ Gt(a, b)
          [] operator = "crosses_below" -> Ge(pa, pb) /\ Lt(a, b)
          [] OTHER -> Gt(a, b)

\* evaluate_condition(df, condition) at row i
EvaluateCondition(columns, closes, cond, i) ==
    Compare(cond.operator, columns, closes, cond.left, cond.right, i)

\* evaluate_rules(df, rules) at row i: all False for no rules, else the AND
EvaluateRules(columns, closes, rules, i) ==
    IF rules = <<>> THEN FALSE
    ELSE \A n \in 1..Len(rules) : EvaluateCondition(columns, closes, rules[n], i)

----------------------------------------------------------------------------
(* Backtester._execute_dynamic_strategy: signals                           *)

\* the column the RSI rule reads: 'rsi_14'
RsiColumnPeriod == 14

\* the condition one entry rule appends to `conditions` (none: <<>>)
RuleConditions(rule, req) ==
    IF Contains("rsi", rule.indicator) /\ rule.threshold # 0
    THEN << [left     |-> NameOperand(ColName("rsi", RsiColumnPeriod)),
             operator |-> IF Contains("oversold", rule.condition) THEN "<" ELSE ">",
             right    |-> NumberOperand(rule.threshold)] >>
    ELSE IF Contains("crossover", rule.indicator) \/ Contains("cross", rule.condition)
    THEN << [left     |-> NameOperand(ColName("sma", req.sma_fast)),
             operator |-> "crosses_above",
             right    |-> NameOperand(ColName("sma", req.sma_slow))] >>
    ELSE << >>

\* the SMA columns one entry rule adds to the frame (the crossover branch)
RuleColumns(rule, req) ==
    IF Contains("rsi", rule.indicator) /\ rule.threshold # 0 THEN {}
    ELSE IF Contains("crossover", rule.indicator) \/ Contains("cross", rule.condition)
    THEN {Column(ColName("sma", req.sma_fast), "sma", req.sma_fast),
          Column(ColName("sma", req.sma_slow), "sma", req.sma_slow)}
    ELSE {}

RECURSIVE Conditions(_, _)
\* `conditions` after the loop over entry_rules
Conditions(entry_rules, req) ==
    IF entry_rules = <<>> THEN <<>>
    ELSE Conditions(SubSeq(entry_rules, 1, Len(entry_rules) - 1), req)
            \o RuleConditions(entry_rules[Len(entry_rules)], req)

\* the fallback branches: df['sma_fast'], df['sma_slow']
FallbackColumns(req) ==
    {Column(ColName("sma_fast", 0), "sma", req.sma_fast),
     Column(ColName("sma_slow", 0), "sma", req.sma_slow)}

\* FallbackCondition with '>' for 'crosses_above'
FallbackConditionAbove ==
    [left     |-> NameOperand(ColName("sma_fast", 0)),
     operator |-> ">",
     right    |-> NameOperand(ColName("sma_slow", 0))]

\* the fallback condition: sma_fast crosses_above sma_slow
FallbackCondition ==
    [left     |-> NameOperand(ColName("sma_fast", 0)),
     operator |-> "crosses_above",
     right    |-> NameOperand(ColName("sma_slow", 0))]

\* every computed column of the frame when the signals are evaluated
DynamicColumns(logic, req) ==
    IndicatorColumns(logic)
      \cup UNION {RuleColumns(logic.entry_rules[n], req) : n \in 1..Len(logic.entry_rules)}
      \cup (IF Conditions(logic.entry_rules, req) = <<>> THEN FallbackColumns(req) ELSE {})

\* Step 2 raises (SignalEvaluator compares a string with numbers)
DynamicRaises(logic, req) ==
    LET conds == Conditions(logic.entry_rules, req)
    IN  \E n \in 1..Len(conds) : ConditionRaises(DynamicColumns(logic, req), conds[n])

\* EntrySignal without the fallback branches: evaluate_rules on whatever
\* conditions there are
EntrySignalNoFallback(logic, req, closes, i) ==
    EvaluateRules(DynamicColumns(logic, req), closes, Conditions(logic.entry_rules, req), i)

\* df['entry_signal'] at row i
EntrySignal(logic, req, closes, i) ==
    LET conds == Conditions(logic.entry_rules, req)
        cols  == DynamicColumns(logic, req)
    IN  IF logic.entry_rules # <<>> /\ conds # <<>>
        THEN EvaluateRules(cols, closes, conds, i)
        ELSE EvaluateCondition(cols, closes, FallbackCondition, i)

\* ExitSignal that leaves the exit to the exit rules when one of them has a
\* condition
ExitSignalByRule(logic, req, closes, i) ==
    /\ \A n \in 1..Len(logic.exit_rules) : logic.exit_rules[n].condition = ""
    /\ i > 1 /\ EntrySignal(logic, req, closes, i - 1) /\ ~EntrySignal(logic, req, closes, i)

\* df['exit_signal'] at row i: entry_signal.shift(1) & ~entry_signal, the
\* NaN of the first row filled with False
ExitSignal(logic, req, closes, i) ==
    i > 1 /\ EntrySignal(logic, req, closes, i - 1) /\ ~EntrySignal(logic, req, closes, i)

RECURSIVE StopLossPct(_)
\* stop_loss_pct after the loop over exit_rules, in percent; 0 stands for
\* None (a rule whose stop_loss_pct is falsy is skipped, so a set value is
\* never 0)
StopLossPct(exit_rules) ==
    IF exit_rules = <<>> THEN 0
    ELSE IF exit_rules[Len(exit_rules)].stop_loss_pct # 0
         THEN exit_rules[Len(exit_rules)].stop_loss_pct
         ELSE StopLossPct(SubSeq(exit_rules, 1, Len(exit_rules) - 1))

\* DropNa that drops nothing
DropNaKeepsAll(columns, closes) == [i \in 1..Len(closes) |-> i]

\* df.dropna(): the rows on which no column is NaN, in order
DropNa(columns, closes) ==
    SelectSeq([i \in 1..Len(closes) |-> i],
              LAMBDA i : \A c \in columns : ~ColumnIsNaN(c, closes, i))

\* to_datetime reading the times as milliseconds (unit='ms')
ToDatetimeMillis(time) == [sec |-> time \div 1000, nano |-> (time % 1000) * 1000000]

\* run: pd.to_datetime(df['time'], unit='s'), the index of a row as whole
\* seconds and nanoseconds since the epoch
ToDatetime(time) == [sec |-> time, nano |-> 0]

\* the loops: timestamp = int(idx.timestamp())
Timestamp(idx) == idx.sec

\* the frame the dynamic trade loop iterates
DynamicFrame(candles, logic, req) ==
    LET closes == CloseOf(candles)
        kept   == DropNa(DynamicColumns(logic, req), closes)
    IN  [n \in 1..Len(kept) |->
            [row          |-> kept[n],
             time         |-> Timestamp(ToDatetime(candles[kept[n]].time)),
             close        |-> candles[kept[n]].close,
             low          |-> candles[kept[n]].low,
             entry_signal |-> EntrySignal(logic, req, closes, kept[n]),
             exit_signal  |-> ExitSignal(logic, req, closes, kept[n])]]

----------------------------------------------------------------------------
(* Backtester._strategy_sma_crossover: signals                             *)

\* df['signal'] at row i: 0, then 1 where fast > slow, -1 where fast < slow
SignalAt(req, closes, i) ==
    IF Gt(Sma(closes, req.sma_fast, i), Sma(closes, req.sma_slow, i)) THEN 1
    ELSE IF Lt(Sma(closes, req.sma_fast, i), Sma(closes, req.sma_slow, i)) THEN -1
    ELSE 0

\* df['crossover'] = df['signal'].diff() at row i > 1 (NaN on the first row)
CrossoverAt(req, closes, i) == SignalAt(req, closes, i) - SignalAt(req, closes, i - 1)

\* the columns of the default pathway that hold NaN on warm-up rows
\* (signal never does; crossover does on the first row only)
DefaultColumns(req) ==
    {Column(ColName("sma_fast", 0), "sma", req.sma_fast),
     Column(ColName("sma_slow", 0), "sma", req.sma_slow)}

\* the frame the default trade loop iterates
DefaultFrame(candles, req) ==
    LET closes == CloseOf(candles)
        kept   == SelectSeq(DropNa(DefaultColumns(req), closes), LAMBDA i : i > 1)
    IN  [n \in 1..Len(kept) |->
            [row       |-> kept[n],
             time      |-> Timestamp(ToDatetime(candles[kept[n]].time)),
             close     |-> candles[kept[n]].close,
             low       |-> candles[kept[n]].low,
             crossover |-> CrossoverAt(req, closes, kept[n])]]

----------------------------------------------------------------------------
(* The trade loops                                                         *)

\* position['stop_loss']: row['close'] * (1 - stop_loss_pct) if stop_loss_pct
\* else None
StopLossOf(close, pct) ==
    IF pct # 0 THEN [none |-> FALSE, price |-> (close * (100 - pct)) \div 100]
    ELSE [none |-> TRUE, price |-> 0]

\* truth value of position['stop_loss']: None and 0.0 are both false
StopLossSet(stop_loss) == ~stop_loss.none /\ stop_loss.price # 0

\* TradeStatus from the unrounded pnl
StatusOf(pnl) == IF pnl > 0 THEN "win" ELSE IF pnl < 0 THEN "loss" ELSE "breakeven"

\* the Trade a close emits
MakeTrade(pos, timestamp, exit_price) ==
    LET pnl == exit_price - pos.entry_price
    IN  [entry_time  |-> pos.entry_time,
         exit_time   |-> timestamp,
         entry_price |-> pos.entry_price,
         exit_price  |-> exit_price,
         pnl         |-> Round4Ticks(pnl),
         pnl_percent |-> PnlPercent(pnl, pos.entry_price),
         type        |-> pos.type,
         status      |-> StatusOf(pnl)]

\* dynamic loop: the stop-loss check of an open position on a row
StopLossHit(pos, row) == StopLossSet(pos.stop_loss) /\ row.low <= pos.stop_loss.price

\* DynamicOpens without `position is None`
DynamicOpensWhileOpen(pos, row) == row.entry_signal

\* dynamic loop: the first branch is taken (a position is opened)
DynamicOpens(pos, row) == row.entry_signal /\ pos = <<>>

\* dynamic loop: exit_trade on this row
DynamicCloses(pos, row) ==
    /\ ~DynamicOpens(pos, row)
    /\ pos # <<>>
    /\ (StopLossHit(pos[1], row) \/ row.exit_signal)

\* dynamic loop: exit_price
DynamicExitPrice(pos, row) ==
    IF StopLossHit(pos, row) THEN pos.stop_loss.price ELSE row.close

\* DefaultOpens on every row that is not a cross below
DefaultOpensUnlessBelow(pos, row) == row.crossover # -2 /\ pos = <<>>

\* default loop: the first branch is taken
DefaultOpens(pos, row) == row.crossover = 2 /\ pos = <<>>

\* default loop: the elif branch is taken
DefaultCloses(pos, row) == ~DefaultOpens(pos, row) /\ row.crossover = -2 /\ pos # <<>>

\* the position dict the dynamic loop opens on a row
DynamicPosition(row, pct) ==
    [entry_time  |-> row.time,
     entry_price |-> row.close,
     type        |-> "long",
     stop_loss   |-> StopLossOf(row.close, pct)]

\* DynamicRowStep with `if` for `elif`: the exit checks also run on the row
\* that opened the position
DynamicRowStepSameRow(pos, trs, row, pct) ==
    LET p == IF DynamicOpens(pos, row) THEN <<DynamicPosition(row, pct)>> ELSE pos
    IN  IF p # <<>> /\ (StopLossHit(p[1], row) \/ row.exit_signal)
        THEN [position |-> <<>>,
              trades   |-> Append(trs, MakeTrade(p[1], row.time, DynamicExitPrice(p[1], row)))]
        ELSE [position |-> p, trades |-> trs]

\* the body of the loop of _execute_dynamic_strategy on one row: the
\* position and the trade list after it
DynamicRowStep(pos, trs, row, pct) ==
    IF DynamicOpens(pos, row)
    THEN [position |-> <<DynamicPosition(row, pct)>>, trades |-> trs]
    ELSE IF DynamicCloses(pos, row)
    THEN [position |-> <<>>,
          trades   |-> Append(trs, MakeTrade(pos[1], row.time, DynamicExitPrice(pos[1], row)))]
    ELSE [position |-> pos, trades |-> trs]

\* the body of the loop of _strategy_sma_crossover on one row
DefaultRowStep(pos, trs, row) ==
    IF DefaultOpens(pos, row)
    THEN [position |-> << [entry_time  |-> row.time,
                           entry_price |-> row.close,
                           type        |-> "long"] >>,
          trades   |-> trs]
    ELSE IF DefaultCloses(pos, row)
    THEN [position |-> <<>>,
          trades   |-> Append(trs, MakeTrade(pos[1], row.time, row.close))]
    ELSE [position |-> pos, trades |-> trs]

----------------------------------------------------------------------------
(* Floats of the analytics: a finite value (the exact quotient num / den   *)
(* in lowest terms, den > 0), +inf, -inf or NaN, with the IEEE rules the   *)
(* numpy operations follow. A square root is never taken: a ratio x that   *)
(* has one in its denominator is held by its signed square x * |x|, which  *)
(* is zero, finite, infinite, NaN, positive or negative exactly when x is. *)

RECURSIVE Gcd(_, _)
Gcd(a, b) == IF b = 0 THEN a ELSE Gcd(b, a % b)

\* the float n / d for integers n and d > 0
XFin(n, d) ==
    LET g == Gcd(Abs(n), d)
    IN  [kind |-> "fin", num |-> n \div g, den |-> d \div g]

XInf(sign) == [kind |-> IF sign > 0 THEN "inf" ELSE "ninf", num |-> 0, den |-> 1]

XNaN == [kind |-> "nan", num |-> 0, den |-> 1]

XInt(n) == XFin(n, 1)

XIsNaN(x) == x.kind = "nan"

XIsInf(x) == x.kind \in {"inf", "ninf"}

XIsFinite(x) == x.kind \in {"fin", "big"}

\* -1, 0 or 1 for a float that is not NaN
XSign(x) ==
    CASE x.kind = "inf" -> 1
      [] x.kind = "ninf" -> -1
      [] OTHER -> Sign(x.num)

XNeg(x) ==
    CASE x.kind = "inf" -> XInf(-1)
      [] x.kind = "ninf" -> XInf(1)
      [] x.kind = "nan" -> XNaN
      [] OTHER -> XFin(-x.num, x.den)

XAbs(x) == IF ~XIsNaN(x) /\ XSign(x) < 0 THEN XNeg(x) ELSE x

XAdd(x, y) ==
    CASE XIsNaN(x) \/ XIsNaN(y) -> XNaN
      [] XIsInf(x) /\ XIsInf(y) -> IF x.kind = y.kind THEN x ELSE XNaN
      [] XIsInf(x) -> x
      [] XIsInf(y) -> y
      [] OTHER -> XFin(x.num * y.den + y.num * x.den, x.den * y.den)

XSub(x, y) == XAdd(x, XNeg(y))

XMul(x, y) ==
    CASE XIsNaN(x) \/ XIsNaN(y) -> XNaN
      [] XIsInf(x) \/ XIsInf(y) ->
            IF XSign(x) = 0 \/ XSign(y) = 0 THEN XNaN ELSE XInf(XSign(x) * XSign(y))
      [] OTHER -> XFin(x.num * y.num, x.den * y.den)

\* x / y: a finite x / 0 is +-inf (NaN for 0 / 0), a finite x / +-inf is 0
XDiv(x, y) ==
    CASE XIsNaN(x) \/ XIsNaN(y) -> XNaN
      [] XIsInf(x) /\ XIsInf(y) -> XNaN
      [] XIsInf(x) -> XInf(XSign(x) * (IF XSign(y) < 0 THEN -1 ELSE 1))
      [] XIsInf(y) -> XInt(0)
      [] y.num = 0 -> IF x.num = 0 THEN XNaN ELSE XInf(XSign(x))
      [] OTHER -> XFin(x.num * y.den * Sign(y.num), x.den * Abs(y.num))

\* comparisons: False when either side is NaN
XLt(x, y) ==
    /\ ~XIsNaN(x) /\ ~XIsNaN(y)
    /\ CASE x.kind = "inf" \/ y.kind = "ninf" -> FALSE
         [] x.kind = "ninf" \/ y.kind = "inf" -> TRUE
         [] OTHER -> x.num * y.den < y.num * x.den

XGt(x, y) == XLt(y, x)

XEq(x, y) == ~XIsNaN(x) /\ ~XIsNaN(y) /\ x = y

\* the larger of two floats neither of which is NaN
XMax(x, y) == IF XLt(x, y) THEN y ELSE x

\* x * |x|
XSignedSquare(x) == XMul(x, XAbs(x))

\* Series.sum() of a series without NaN
RECURSIVE XSum(_)
XSum(xs) == IF xs = <<>> THEN XInt(0) ELSE XAdd(XSum(SubSeq(xs, 1, Len(xs) - 1)), xs[Len(xs)])

\* Series.mean(): NaN for the empty series
XMean(xs) == XDiv(XSum(xs), XInt(Len(xs)))

\* Series.std() ** 2 (ddof = 1): NaN for fewer than two values
XVar(xs) ==
    IF Len(xs) < 2 THEN XNaN
    ELSE LET avg == XMean(xs)
             sqr == [i \in 1..Len(xs) |-> XMul(XSub(avg, xs[i]), XSub(avg, xs[i]))]
         IN  XDiv(XSum(sqr), XInt(Len(xs) - 1))

\* np.nan_to_num(x, nan=0.0): NaN becomes 0 and an infinity the largest
\* finite float of its sign
XBig(sign) == [kind |-> "big", num |-> sign, den |-> 1]

NanToNum(x) ==
    CASE XIsNaN(x) -> XInt(0)
      [] XIsInf(x) -> XBig(XSign(x))
      [] OTHER -> x

----------------------------------------------------------------------------
(* PerformanceAnalyzer and the result                                      *)

\* initial_capital in units of 10^-4
Capital(req) == req.initial_capital * 10000

\* round(x, 2) of a value counting 10^-4 (the result counts 10^-4 too)
Round2(x) == RoundDiv(x, 100) * 100

\* PnlAt that assigns instead of adding: the last trade of a candle only
RECURSIVE PnlAtLastOnly(_, _, _)
PnlAtLastOnly(trs, candles, i) ==
    IF trs = <<>> THEN 0
    ELSE IF trs[Len(trs)].exit_time = candles[i].time THEN trs[Len(trs)].pnl
    ELSE PnlAtLastOnly(SubSeq(trs, 1, Len(trs) - 1), candles, i)

\* df['pnl'] at candle i: the pnl of every trade whose exit_time is its time
PnlAt(trs, candles, i) ==
    SumRange([n \in 1..Len(trs) |->
                 IF trs[n].exit_time = candles[i].time THEN trs[n].pnl ELSE 0],
             1, Len(trs))

\* calculate_equity_curve: one {time, equity} per candle
EquityCurve(trs, candles, capital) ==
    [i \in 1..Len(candles) |->
        [time   |-> candles[i].time,
         equity |-> capital + SumRange([j \in 1..Len(candles) |-> PnlAt(trs, candles, j)], 1, i)]]

\* the equity column of a curve
EquityOf(curve) == [i \in 1..Len(curve) |-> curve[i].equity]

\* equity.pct_change().fillna(0): equity[i] / equity[i-1] - 1, NaN (the
\* first row, 0 / 0) replaced by 0
PctChange(equity) ==
    [i \in 1..Len(equity) |->
        IF i = 1 THEN XInt(0)
        ELSE LET change == XSub(XDiv(XInt(equity[i]), XInt(equity[i - 1])), XInt(1))
             IN  IF XIsNaN(change) THEN XInt(0) ELSE change]

\* calculate_equity_curve: the returns column (0.0 throughout without trades)
Returns(trs, candles, capital) ==
    IF trs = <<>> THEN [i \in 1..Len(candles) |-> XInt(0)]
    ELSE PctChange(EquityOf(EquityCurve(trs, candles, capital)))

\* equity.cummax() at row i
RECURSIVE CumMax(_, _)
CumMax(equity, i) ==
    IF i = 1 THEN equity[1]
    ELSE LET before == CumMax(equity, i - 1)
         IN  IF before < equity[i] THEN equity[i] ELSE before

\* drawdown_pct: (equity - running_max) / running_max * 100, infinities
\* and NaN replaced by 0
DrawdownPct(equity) ==
    [i \in 1..Len(equity) |->
        LET running_max == CumMax(equity, i)
            drawdown    == equity[i] - running_max
            pct         == XMul(XDiv(XInt(drawdown), XInt(running_max)), XInt(100))
        IN  IF XIsInf(pct) \/ XIsNaN(pct) THEN XInt(0) ELSE pct]

\* calculate_drawdown_series, as calculate_all_metrics returns it: one
\* {time, drawdown_pct} per point of the equity curve
DrawdownSeries(curve) ==
    LET pct == DrawdownPct(EquityOf(curve))
    IN  [i \in 1..Len(curve) |-> [time |-> curve[i].time, drawdown_pct |-> pct[i]]]

\* TRADING_DAYS_CRYPTO
TradingDaysCrypto == 365

\* SharpeRatio without its guards
SharpeRatioUnguarded(returns) ==
    XMul(XDiv(XSignedSquare(XMean(returns)), XVar(returns)), XInt(TradingDaysCrypto))

\* calculate_sharpe_ratio (risk_free_rate = 0), as its signed square
SharpeRatio(returns) ==
    IF returns = <<>> \/ XEq(XVar(returns), XInt(0)) THEN XInt(0)
    ELSE LET mean_return == XMean(returns)
             var_return  == XVar(returns)
         IN  IF XEq(var_return, XInt(0)) \/ XIsNaN(var_return) THEN XInt(0)
             ELSE NanToNum(XMul(XDiv(XSignedSquare(mean_return), var_return),
                                XInt(TradingDaysCrypto)))

\* calculate_sortino_ratio: the value returned when no return is negative
\* and the mean is positive
SortinoCap == 10

\* SortinoRatio without np.nan_to_num
SortinoRatioRaw(returns) ==
    IF returns = <<>> THEN XInt(0)
    ELSE LET downside == SelectSeq(returns, LAMBDA x : XLt(x, XInt(0)))
         IN  IF downside = <<>>
             THEN IF XGt(XMean(returns), XInt(0))
                  THEN XSignedSquare(XInt(SortinoCap)) ELSE XInt(0)
             ELSE LET downside_var ==
                          XMean([i \in 1..Len(downside) |-> XMul(downside[i], downside[i])])
                  IN  IF XEq(downside_var, XInt(0)) \/ XIsNaN(downside_var) THEN XInt(0)
                      ELSE XMul(XDiv(XSignedSquare(XMean(returns)), downside_var),
                                XInt(TradingDaysCrypto))

\* calculate_sortino_ratio (risk_free_rate = 0), as its signed square
SortinoRatio(returns) ==
    IF returns = <<>> THEN XInt(0)
    ELSE LET downside == SelectSeq(returns, LAMBDA x : XLt(x, XInt(0)))
         IN  IF downside = <<>>
             THEN IF XGt(XMean(returns), XInt(0))
                  THEN XSignedSquare(XInt(SortinoCap)) ELSE XInt(0)
             ELSE LET downside_var ==
                          XMean([i \in 1..Len(downside) |-> XMul(downside[i], downside[i])])
                  IN  IF XEq(downside_var, XInt(0)) \/ XIsNaN(downside_var) THEN XInt(0)
                      ELSE NanToNum(XMul(XDiv(XSignedSquare(XMean(returns)), downside_var),
                                         XInt(TradingDaysCrypto)))

\* np.sum(pnls[pnls > 0]) and np.sum(pnls[pnls < 0])
GrossProfit(trs) ==
    SumRange([n \in 1..Len(trs) |-> IF trs[n].pnl > 0 THEN trs[n].pnl ELSE 0], 1, Len(trs))

GrossLoss(trs) ==
    SumRange([n \in 1..Len(trs) |-> IF trs[n].pnl < 0 THEN trs[n].pnl ELSE 0], 1, Len(trs))

\* ProfitFactor without the gross_loss == 0 branch
ProfitFactorUnguarded(trs) ==
    IF trs = <<>> THEN XInt(0)
    ELSE XAbs(XDiv(XInt(GrossProfit(trs)), XInt(GrossLoss(trs))))

\* calculate_profit_factor
ProfitFactor(trs) ==
    IF trs = <<>> THEN XInt(0)
    ELSE IF GrossLoss(trs) = 0
         THEN IF GrossProfit(trs) > 0 THEN XInt(GrossProfit(trs)) ELSE XInt(0)
         ELSE XAbs(XDiv(XInt(GrossProfit(trs)), XInt(GrossLoss(trs))))

\* calculate_all_metrics, before the rounding of the metrics
AllMetrics(trs, candles, capital) ==
    LET curve == EquityCurve(trs, candles, capital)
    IN  [sharpe_ratio    |-> SharpeRatio(Returns(trs, candles, capital)),
         sortino_ratio   |-> SortinoRatio(Returns(trs, candles, capital)),
         profit_factor   |-> ProfitFactor(trs),
         total_trades    |-> Len(trs),
         equity_curve    |-> curve,
         drawdown_series |-> DrawdownSeries(curve)]

\* calculate_all_metrics: pnls.sum()
TotalPnl(trs) == SumRange([n \in 1..Len(trs) |-> trs[n].pnl], 1, Len(trs))

\* calculate_all_metrics: the trades whose recorded pnl is > 0 / < 0
WinningTrades(trs) == Cardinality({n \in 1..Len(trs) : trs[n].pnl > 0})

LosingTrades(trs) == Cardinality({n \in 1..Len(trs) : trs[n].pnl < 0})

\* BuildResult after closing a position still open at the last candle's
\* close
BuildResultClosingOpen(req, trs, candles) ==
    LET all   == IF position = <<>> THEN trs
                 ELSE Append(trs, MakeTrade(position[1], candles[Len(candles)].time,
                                            candles[Len(candles)].close))
        curve == EquityCurve(all, candles, Capital(req))
    IN  [trades          |-> all,
         equity_curve    |-> curve,
         drawdown_series |-> DrawdownSeries(curve),
         total_trades    |-> Len(all),
         winning_trades  |-> WinningTrades(all),
         losing_trades   |-> LosingTrades(all),
         total_return    |-> Round2(TotalPnl(all)),
         gross_profit    |-> Round2(GrossProfit(all)),
         gross_loss      |-> Round2(GrossLoss(all)),
         final_equity    |-> IF curve # <<>> THEN Round2(curve[Len(curve)].equity)
                             ELSE Capital(req)]

\* _build_result over calculate_all_metrics
BuildResult(req, trs, candles) ==
    LET curve == EquityCurve(trs, candles, Capital(req))
    IN  [trades          |-> trs,
         equity_curve    |-> curve,
         drawdown_series |-> DrawdownSeries(curve),
         total_trades    |-> Len(trs),
         winning_trades  |-> WinningTrades(trs),
         losing_trades   |-> LosingTrades(trs),
         total_return    |-> Round2(TotalPnl(trs)),
         gross_profit    |-> Round2(GrossProfit(trs)),
         gross_loss      |-> Round2(GrossLoss(trs)),
         final_equity    |-> IF curve # <<>> THEN Round2(curve[Len(curve)].equity)
                             ELSE Capital(req)]

\* _empty_result
EmptyResult(req) ==
    [trades          |-> <<>>,
     equity_curve    |-> <<>>,
     drawdown_series |-> <<>>,
     total_trades    |-> 0,
     winning_trades  |-> 0,
     losing_trades   |-> 0,
     total_return    |-> 0,
     gross_profit    |-> 0,
     gross_loss      |-> 0,
     final_equity    |-> Capital(req)]

----------------------------------------------------------------------------
(* Inputs of a run                                                         *)

\* run: the rows required beyond sma_slow
WarmupMargin == 10

Requests == { [sma_fast |-> 2, sma_slow |-> 10, initial_capital |-> 10000] }

Min(a, b) == IF a < b THEN a ELSE b

\* candle list lengths: empty, one short of the minimum, and the minimum up
\* to MaxExtra rows more
Lengths(req) ==
    {0, req.sma_slow + WarmupMargin - 1}
      \cup ((req.sma_slow + WarmupMargin) .. (req.sma_slow + WarmupMargin + MaxExtra))

\* n candles, strictly ascending in time: the leading rows repeat `pat`, the
\* trailing rows are `suf`
Candles(n, pat, suf, lf) ==
    [i \in 1..n |->
        LET c == IF i > n - Len(suf) THEN suf[i - (n - Len(suf))]
                 ELSE pat[((i - 1) % Len(pat)) + 1]
        IN  [time |-> 60 * i, low |-> (c * lf) \div 2, close |-> c]]

Indicator(name, period) == [name |-> name, period |-> period]

EntryRule(indicator, condition, threshold) ==
    [indicator |-> indicator, condition |-> condition, threshold |-> threshold]

\* an exit rule; 0 stands for an absent (or zero) stop_loss_pct or
\* take_profit_pct
ExitRule(stop_loss_pct) ==
    [stop_loss_pct   |-> stop_loss_pct,
     condition       |-> "",
     take_profit_pct |-> 0,
     trailing_stop   |-> FALSE]

\* strategy_logic = None
NoLogic ==
    [present |-> FALSE, has_indicators |-> FALSE,
     indicators |-> <<>>, entry_rules |-> <<>>, exit_rules |-> <<>>]

\* a strategy_logic dict with the 'indicators' key
Logic(indicators, entry_rules, exit_rules) ==
    [present |-> TRUE, has_indicators |-> TRUE,
     indicators |-> indicators, entry_rules |-> entry_rules, exit_rules |-> exit_rules]

\* RSI oversold below 50 with the given exit rules
RsiOversold(exit_rules) ==
    Logic(<<Indicator("RSI", 14)>>, <<EntryRule("RSI", "oversold", 50)>>, exit_rules)

\* the strategy specifications in use, each with the factor f of its candles'
\* low = close * f / 2
Scenarios ==
    { [logic |-> NoLogic, low_factor |-> 2],
      \* empty rule lists
      [logic |-> Logic(<<>>, <<>>, <<>>), low_factor |-> 2],
      \* a crossover rule with a 50% stop-loss and a longer SMA
      [logic |-> Logic(<<Indicator("SMA", 16)>>,
                       <<EntryRule("sma_crossover", "", 0)>>,
                       <<ExitRule(50)>>),
       low_factor |-> 1],
      \* RSI oversold with a 50% stop-loss
      [logic |-> RsiOversold(<<ExitRule(50)>>), low_factor |-> 1],
      [logic |-> RsiOversold(<<ExitRule(50)>>), low_factor |-> 2],
      \* RSI oversold with a 100% stop-loss, lows at 0
      [logic |-> RsiOversold(<<ExitRule(50), ExitRule(100)>>), low_factor |-> 0],
      \* RSI overbought, no stop-loss
      [logic |-> Logic(<<Indicator("rsi", 14), Indicator("EMA", 12)>>,
                       <<EntryRule("rsi", "overbought", 50)>>,
                       <<ExitRule(0)>>),
       low_factor |-> 2],
      \* RSI and crossover together
      [logic |-> Logic(<<Indicator("RSI", 14)>>,
                       <<EntryRule("rsi", "overbought", 50), EntryRule("", "golden cross", 0)>>,
                       <<>>),
       low_factor |-> 2],
      \* no usable rule
      [logic |-> Logic(<<Indicator("VWAP", 20)>>,
                       <<EntryRule("volume", "above", 0), EntryRule("rsi", "oversold", 0)>>,
                       <<ExitRule(50)>>),
       low_factor |-> 1],
      \* an RSI rule without the rsi_14 column
      [logic |-> Logic(<<Indicator("RSI", 12)>>,
                       <<EntryRule("rsi", "oversold", 50)>>,
                       <<>>),
       low_factor |-> 2] }

----------------------------------------------------------------------------
(* The run as a state machine                                              *)

\* Backtester.__init__: the default of initial_capital
DefaultCapital == 10000

\* Backtester(initial_capital): the fields of the instance (the
\* IndicatorFactory it also holds has no fields)
NewBacktester(initial_capital) == [initial_capital |-> initial_capital]

Init ==
    /\ request \in Requests
    /\ \E sc \in Scenarios, n \in Lengths(request), pat \in Patterns :
         \E suf \in [1..Min(n, MaxFree) -> Closes] :
            /\ strategy_logic = sc.logic
            /\ data = Candles(n, pat, suf, sc.low_factor)
    /\ pc = "start"
    /\ pathway = "none"
    /\ df = <<>>
    /\ k = 1
    /\ position = <<>>
    /\ trades = <<>>
    /\ result = <<>>
    /\ call = <<>>
    /\ backtester = NewBacktester(DefaultCapital)

\* Insufficient without the margin of 10 rows
InsufficientNoMargin(candles, req) ==
    Len(candles) = 0 \/ Len(candles) < req.sma_slow

\* run: `not data or len(data) < request.sma_slow + 10`
Insufficient(candles, req) ==
    Len(candles) = 0 \/ Len(candles) < req.sma_slow + WarmupMargin

\* run: `strategy_logic and 'indicators' in strategy_logic`
UsesDynamic(logic) == logic.present /\ logic.has_indicators

\* run returns _empty_result
RunInsufficient ==
    /\ pc = "start"
    /\ Insufficient(data, request)
    /\ result' = <<EmptyResult(request)>>
    /\ pc' = "done"
    /\ UNCHANGED <<data, request, strategy_logic, pathway, df, k, position, trades, call, backtester>>

\* run enters _strategy_sma_crossover, up to its loop
RunDefault ==
    /\ pc = "start"
    /\ ~Insufficient(data, request)
    /\ ~UsesDynamic(strategy_logic)
    /\ pathway' = "default"
    /\ df' = DefaultFrame(data, request)
    /\ pc' = "loop"
    /\ UNCHANGED <<data, request, strategy_logic, k, position, trades, result, call, backtester>>

\* run enters _execute_dynamic_strategy, up to its loop
RunDynamic ==
    /\ pc = "start"
    /\ ~Insufficient(data, request)
    /\ UsesDynamic(strategy_logic)
    /\ ~DynamicRaises(strategy_logic, request)
    /\ pathway' = "dynamic"
    /\ df' = DynamicFrame(data, strategy_logic, request)
    /\ pc' = "loop"
    /\ UNCHANGED <<data, request, strategy_logic, k, position, trades, result, call, backtester>>

\* _execute_dynamic_strategy raises while evaluating the entry conditions
RunDynamicRaises ==
    /\ pc = "start"
    /\ ~Insufficient(data, request)
    /\ UsesDynamic(strategy_logic)
    /\ DynamicRaises(strategy_logic, request)
    /\ pathway' = "dynamic"
    /\ pc' = "raised"
    /\ UNCHANGED <<data, request, strategy_logic, df, k, position, trades, result, call, backtester>>

\* one iteration of the loop of _execute_dynamic_strategy
StepDynamic ==
    /\ pc = "loop"
    /\ pathway = "dynamic"
    /\ k <= Len(df)
    /\ LET after == DynamicRowStep(position, trades, df[k],
                                   StopLossPct(strategy_logic.exit_rules))
       IN  /\ position' = after.position
           /\ trades' = after.trades
    /\ k' = k + 1
    /\ UNCHANGED <<data, request, strategy_logic, pc, pathway, df, result, call, backtester>>

\* one iteration of the loop of _strategy_sma_crossover
StepDefault ==
    /\ pc = "loop"
    /\ pathway = "default"
    /\ k <= Len(df)
    /\ LET after == DefaultRowStep(position, trades, df[k])
       IN  /\ position' = after.position
           /\ trades' = after.trades
    /\ k' = k + 1
    /\ UNCHANGED <<data, request, strategy_logic, pc, pathway, df, result, call, backtester>>

\* the loop is over: analytics, _build_result, return
Finish ==
    /\ pc = "loop"
    /\ k > Len(df)
    /\ result' = <<BuildResult(request, trades, data)>>
    /\ pc' = "done"
    /\ UNCHANGED <<data, request, strategy_logic, pathway, df, k, position, trades, call, backtester>>

Next ==
    \/ RunInsufficient
    \/ RunDefault
    \/ RunDynamic
    \/ RunDynamicRaises
    \/ StepDynamic
    \/ StepDefault
    \/ Finish

Spec == Init /\ [][Next]_vars

----------------------------------------------------------------------------
(* A run from its call to its return                                       *)

RECURSIVE DynamicLoop(_, _, _)
\* the position and the trade list after the first n rows of the loop of
\* _execute_dynamic_strategy
DynamicLoop(frame, n, pct) ==
    IF n = 0 THEN [position |-> <<>>, trades |-> <<>>]
    ELSE LET before == DynamicLoop(frame, n - 1, pct)
         IN  DynamicRowStep(before.position, before.trades, frame[n], pct)

RECURSIVE DefaultLoop(_, _)
\* the same for the loop of _strategy_sma_crossover
DefaultLoop(frame, n) ==
    IF n = 0 THEN [position |-> <<>>, trades |-> <<>>]
    ELSE LET before == DefaultLoop(frame, n - 1)
         IN  DefaultRowStep(before.position, before.trades, frame[n])

\* the trades _execute_dynamic_strategy returns
DynamicTrades(candles, logic, req) ==
    LET frame == DynamicFrame(candles, logic, req)
    IN  DynamicLoop(frame, Len(frame), StopLossPct(logic.exit_rules)).trades

\* the trades _strategy_sma_crossover returns
DefaultTrades(candles, req) ==
    LET frame == DefaultFrame(candles, req)
    IN  DefaultLoop(frame, Len(frame)).trades

\* run(data, request, strategy_logic): <<result>>, or <<>> when it raises
RunOf(candles, req, logic) ==
    IF Insufficient(candles, req) THEN <<EmptyResult(req)>>
    ELSE IF ~UsesDynamic(logic)
    THEN <<BuildResult(req, DefaultTrades(candles, req), candles)>>
    ELSE IF DynamicRaises(logic, req) THEN <<>>
    ELSE <<BuildResult(req, DynamicTrades(candles, logic, req), candles)>>

----------------------------------------------------------------------------
(* Properties                                                              *)

\* the loop is about to process row df[k]
InLoop == pc = "loop" /\ k <= Len(df)

\* the entry signal of a frame row, in either pathway
RowEntrySignal(row) ==
    IF pathway = "dynamic" THEN row.entry_signal ELSE row.crossover = 2

\* trades do not overlap: each trade is entered no earlier than the previous
\* one was exited, and so is the open position
NonOverlap ==
    /\ \A n \in 2..Len(trades) : trades[n].entry_time >= trades[n - 1].exit_time
    /\ (position # <<>> /\ trades # <<>>)
          => position[1].entry_time >= trades[Len(trades)].exit_time

\* an entry signal on a row where a position is open leaves it unchanged
IgnoredUnchanged ==
    (InLoop /\ position # <<>> /\ RowEntrySignal(df[k]))
        => (position' = position /\ trades' = trades)

\* C1 as claimed: in both pathways at most one position is open at any row:
\* an entry signal on a row where a position is open opens nothing and leaves
\* the open position unchanged, and each trade's entry_time is >= the previous
\* trade's exit_time.
C1_Original == []NonOverlap /\ [][IgnoredUnchanged]_vars

\* an open position is never replaced; on a row with an entry signal it is
\* left unchanged, or (dynamic pathway) closed at its stop-loss price
IgnoredOrStopped ==
    InLoop =>
      /\ (position # <<>> /\ position' # <<>>) => position' = position
      /\ (position # <<>> /\ RowEntrySignal(df[k])) =>
            \/ position' = position /\ trades' = trades
            \/ /\ pathway = "dynamic"
               /\ ~position[1].stop_loss.none
               /\ df[k].low <= position[1].stop_loss.price
               /\ position' = <<>>
               /\ Len(trades') = Len(trades) + 1
               /\ SubSeq(trades', 1, Len(trades)) = trades
               /\ trades'[Len(trades')].entry_time = position[1].entry_time
               /\ trades'[Len(trades')].exit_time = df[k].time
               /\ trades'[Len(trades')].exit_price = position[1].stop_loss.price

\* C1 amended: in both pathways at most one position is open at any row: an
\* entry signal on a row where a position is open opens nothing (the open
\* position is never replaced); it leaves the open position unchanged, except
\* that in the dynamic pathway the stop-loss may close it on that row; each
\* trade's entry_time is >= the previous trade's exit_time.
C1_Amended == []NonOverlap /\ [][IgnoredOrStopped]_vars

\* an entry signal arrived on the row just processed while a position opened
\* earlier was open, and the position is still the same
C1_Witness ==
    /\ pc = "loop" /\ k > 1 /\ k <= Len(df) + 1
    /\ position # <<>>
    /\ RowEntrySignal(df[k - 1])
    /\ position[1].entry_time < df[k - 1].time
    /\ trades # <<>>

\* C2: every emitted trade has exit_time > entry_time.
C2_ExitAfterEntry == \A n \in 1..Len(trades) : trades[n].exit_time > trades[n].entry_time

\* a run has ended with two trades or more
C2_Witness == pc = "done" /\ Len(trades) >= 2

\* C3 as claimed: the outcome of every trade matches the sign of its recorded
\* pnl: win iff pnl > 0, loss iff pnl < 0, breakeven iff pnl = 0.
C3_OutcomeMatchesRecordedPnl ==
    \A n \in 1..Len(trades) :
        /\ trades[n].status = "win" <=> trades[n].pnl > 0
        /\ trades[n].status = "loss" <=> trades[n].pnl < 0
        /\ trades[n].status = "breakeven" <=> trades[n].pnl = 0


\* the run has entered a pathway's loop (or left it)
Looping == pc \in {"loop", "done"} /\ pathway # "none"

\* C4: for a candle list shorter than sma_slow + 10 (the empty one included)
\* run does not raise and never enters a pathway; it returns a result with no
\* trades whose equity curve has no point off initial_capital and whose
\* final_equity is initial_capital, with or without a strategy specification.
C4_InsufficientDataEmptyResult ==
    Len(data) < request.sma_slow + WarmupMargin =>
        /\ pc \in {"start", "done"}
        /\ pathway = "none" /\ trades = <<>> /\ position = <<>>
        /\ pc = "done" =>
              /\ result # <<>>
              /\ result[1].trades = <<>>
              /\ result[1].total_trades = 0
              /\ \A n \in 1..Len(result[1].equity_curve) :
                     result[1].equity_curve[n].equity = Capital(request)
              /\ result[1].final_equity = Capital(request)

\* run has returned for a non-empty candle list one row short of the
\* minimum, with a strategy specification supplied
C4_Witness ==
    /\ pc = "done"
    /\ Len(data) = request.sma_slow + WarmupMargin - 1
    /\ UsesDynamic(strategy_logic)
    /\ result # <<>>

\* the documented crossing of SMA(sma_fast) above SMA(sma_slow) at row i
SmaCrossesAbove(req, closes, i) ==
    /\ i > 1
    /\ Le(Sma(closes, req.sma_fast, i - 1), Sma(closes, req.sma_slow, i - 1))
    /\ Gt(Sma(closes, req.sma_fast, i), Sma(closes, req.sma_slow, i))

\* the documented crossing of SMA(sma_fast) below SMA(sma_slow) at row i
SmaCrossesBelow(req, closes, i) ==
    /\ i > 1
    /\ Ge(Sma(closes, req.sma_fast, i - 1), Sma(closes, req.sma_slow, i - 1))
    /\ Lt(Sma(closes, req.sma_fast, i), Sma(closes, req.sma_slow, i))

\* the row of the candle list whose time is t
RowAt(t) == CHOOSE i \in 1..Len(data) : data[i].time = t

\* the run takes the dynamic pathway with an empty entry_rules list
EmptyEntryRules == UsesDynamic(strategy_logic) /\ strategy_logic.entry_rules = <<>>

\* C5 as claimed: a strategy specification whose entry_rules list is empty
\* yields zero trades.
C5_Original ==
    (pc = "done" /\ EmptyEntryRules /\ result # <<>>) => result[1].trades = <<>>

\* C5 amended: with a strategy specification whose entry_rules list is empty
\* the run uses the SMA crossover as its entry condition, so it can yield
\* trades; every position is opened on a row where SMA(sma_fast) crosses above
\* SMA(sma_slow), never on any other row (no "always enter").
C5_Amended ==
    EmptyEntryRules =>
        /\ \A n \in 1..Len(trades) :
              SmaCrossesAbove(request, CloseOf(data), RowAt(trades[n].entry_time))
        /\ position # <<>> =>
              SmaCrossesAbove(request, CloseOf(data), RowAt(position[1].entry_time))

\* a run with an empty entry_rules list has returned trades
C5_Witness ==
    pc = "done" /\ EmptyEntryRules /\ result # <<>> /\ result[1].trades # <<>>


\* the stop-loss price a position entered at entry_price carries under the
\* strategy's stop_loss_pct, as the specification defines it
StopPrice(entry_price) ==
    (entry_price * (100 - StopLossPct(strategy_logic.exit_rules))) \div 100

\* the strategy carries a stop-loss
HasStopLoss == StopLossPct(strategy_logic.exit_rules) # 0

\* the stop-loss condition of a position entered at entry_price, on a candle
StopLossCondition(entry_price, low) == HasStopLoss /\ low <= StopPrice(entry_price)

\* C6: in the dynamic pathway, a trade closed on a row where both the
\* stop-loss condition (low <= stop-loss price) and the exit signal hold is
\* closed at the stop-loss price.
C6_StopLossPriority ==
    pathway = "dynamic" =>
        \A n \in 1..Len(trades) :
            LET t == trades[n]
                i == RowAt(t.exit_time)
            IN  (/\ StopLossCondition(t.entry_price, data[i].low)
                 /\ ExitSignal(strategy_logic, request, CloseOf(data), i))
                    => t.exit_price = StopPrice(t.entry_price)

\* the index in df of the row whose time is t
DfIndex(t) == CHOOSE n \in 1..Len(df) : df[n].time = t

\* a row on which an open position entered at entry_price has to be closed:
\* its stop-loss condition holds or the exit signal is true
CloseTrigger(entry_price, row) ==
    StopLossCondition(entry_price, row.low) \/ row.exit_signal

\* C7: in the dynamic pathway a position entered at row e is closed at the
\* first later row on which its stop-loss condition or the exit signal holds,
\* by exactly one trade, after which the engine is flat again; no trade is
\* closed on a row without such a trigger, and a position still open has met
\* no trigger since its entry.
C7_ClosedAtFirstTrigger ==
    (Looping /\ pathway = "dynamic") =>
        /\ \A n \in 1..Len(trades) :
              LET t == trades[n]
                  e == DfIndex(t.entry_time)
                  x == DfIndex(t.exit_time)
              IN  /\ x > e
                  /\ CloseTrigger(t.entry_price, df[x])
                  /\ \A j \in (e + 1)..(x - 1) : ~CloseTrigger(t.entry_price, df[j])
                  /\ n < Len(trades) => trades[n + 1].entry_time > t.exit_time
        /\ position # <<>> =>
              LET e == DfIndex(position[1].entry_time)
              IN  /\ \A j \in (e + 1)..(k - 1) :
                         ~CloseTrigger(position[1].entry_price, df[j])
                  /\ \A n \in 1..Len(trades) :
                         trades[n].exit_time < position[1].entry_time


\* every indicator column the run computes is defined on row i of the candle
\* list
RowDefined(i) ==
    IF pathway = "dynamic"
    THEN \A c \in DynamicColumns(strategy_logic, request) :
             ~ColumnIsNaN(c, CloseOf(data), i)
    ELSE /\ ~Sma(CloseOf(data), request.sma_fast, i).nan
         /\ ~Sma(CloseOf(data), request.sma_slow, i).nan

\* C8: no position is opened or closed on a row where any computed indicator
\* column is undefined (warm-up rows are dropped before the loop), in both
\* pathways.
C8_NoTradeOnWarmup ==
    Looping =>
        /\ \A n \in 1..Len(trades) :
              /\ RowDefined(RowAt(trades[n].entry_time))
              /\ RowDefined(RowAt(trades[n].exit_time))
        /\ position # <<>> => RowDefined(RowAt(position[1].entry_time))

\* a run whose longest warm-up comes from an indicator of the strategy (not
\* from the SMAs of the request) has ended with a trade
C8_Witness ==
    /\ pc = "done" /\ pathway = "dynamic" /\ trades # <<>>
    /\ \E i \in 1..Len(data) :
          /\ ~RowDefined(i)
          /\ ~Sma(CloseOf(data), request.sma_slow, i).nan

\* the row the loop has just processed
LastRow == df[k - 1]

\* the last step opened a position / closed one
OpenedNow == position # <<>> /\ position[1].entry_time = LastRow.time
ClosedNow == trades # <<>> /\ trades[Len(trades)].exit_time = LastRow.time

\* C9: in the default pathway a long position is opened at row i exactly when
\* the engine is flat and SMA_fast[i-1] <= SMA_slow[i-1] and SMA_fast[i] >
\* SMA_slow[i], and closed at row i exactly when a position is open and
\* SMA_fast[i-1] >= SMA_slow[i-1] and SMA_fast[i] < SMA_slow[i].
C9_DefaultCrossoverRule ==
    (Looping /\ pathway = "default" /\ k > 1) =>
        LET wasFlat == OpenedNow \/ (position = <<>> /\ ~ClosedNow)
        IN  IF wasFlat
            THEN OpenedNow <=> SmaCrossesAbove(request, CloseOf(data), LastRow.row)
            ELSE ClosedNow <=> SmaCrossesBelow(request, CloseOf(data), LastRow.row)

\* the run takes the dynamic pathway and builds no usable entry condition
NoUsableEntryCondition ==
    pathway = "dynamic" /\ Conditions(strategy_logic.entry_rules, request) = <<>>

\* C10: when the entry rules of the dynamic pathway yield no usable
\* condition, the entry signal of every row is exactly
\* crosses_above(SMA(sma_fast), SMA(sma_slow)).
C10_FallbackEntrySignal ==
    (Looping /\ NoUsableEntryCondition) =>
        \A n \in 1..Len(df) :
            df[n].entry_signal = SmaCrossesAbove(request, CloseOf(data), df[n].row)

\* a run with entry rules of which none is usable has opened a position on a
\* row of the fallback signal
C10_Witness ==
    /\ Looping /\ NoUsableEntryCondition
    /\ strategy_logic.entry_rules # <<>>
    /\ \E n \in 1..Len(df) : df[n].entry_signal
    /\ trades # <<>>


\* C11: for any strategy specification on a candle list of sufficient
\* length, run completes and returns a result: it never raises.
C11_RunNeverRaises ==
    pc # "raised" /\ (pc = "done" => result # <<>>)


----------------------------------------------------------------------------
(* SignalEvaluator called directly                                         *)

\* rows of the frames an evaluator call is given, at most
MaxRows == 3

\* conditions in the rule list an evaluate_rules call is given, at most
MaxRules == 2

\* the close values of those frames
FrameCloses == {1, 2, 3}

\* the indicator columns of those frames: sma_1 (the close itself, never
\* NaN) and sma_2 (NaN on the first row)
FrameColumns ==
    {Column(ColName("sma", 1), "sma", 1), Column(ColName("sma", 2), "sma", 2)}

\* operands: the two columns, two strings that name no column, a number
Operands ==
    {NameOperand(ColName("sma", 1)), NameOperand(ColName("sma", 2)),
     NameOperand(ColName("rsi", 14)), NameOperand(ColName("vwap", 20)),
     NumberOperand(2)}

\* the keys of COMPARATORS and one operator that is not a key
Operators == {">", "<", ">=", "<=", "==", "crosses_above", "crosses_below", "!="}

Condition(left, operator, right) ==
    [left |-> left, operator |-> operator, right |-> right]

\* the conditions an evaluate_condition call is given
EvaluatorConditions ==
    {Condition(l, op, r) : l \in Operands, op \in Operators, r \in Operands}

\* the conditions the rule lists of an evaluate_rules call are made of
RulePool ==
    {Condition(NameOperand(ColName("sma", 1)), ">", NameOperand(ColName("sma", 2))),
     Condition(NameOperand(ColName("sma", 1)), "crosses_above", NameOperand(ColName("sma", 2))),
     Condition(NameOperand(ColName("sma", 1)), ">=", NumberOperand(2)),
     Condition(NameOperand(ColName("sma", 2)), "<", NumberOperand(2)),
     Condition(NameOperand(ColName("rsi", 14)), "<", NumberOperand(2))}

\* the sequences over S of length lo..hi
SeqsOf(S, lo, hi) == UNION {[1..m -> S] : m \in lo..hi}

\* a call of fn(df, rules) on the frame with the given closes
EvaluatorCall(fn, closes, rules) == [fn |-> fn, closes |-> closes, rules |-> rules]

EvaluatorCalls ==
    {EvaluatorCall("evaluate_condition", c, <<cond>>) :
        c \in SeqsOf(FrameCloses, 1, MaxRows), cond \in EvaluatorConditions}
    \cup
    {EvaluatorCall("evaluate_rules", c, rules) :
        c \in SeqsOf(FrameCloses, 1, MaxRows), rules \in SeqsOf(RulePool, 0, MaxRules)}

\* what a call did: it raised, or it returned a series
Raised == [raised |-> TRUE, series |-> <<>>]

Returned(series) == [raised |-> FALSE, series |-> series]

\* evaluate_condition(df, condition)
EvaluateConditionCall(columns, closes, cond) ==
    IF ConditionRaises(columns, cond) THEN Raised
    ELSE Returned([i \in 1..Len(closes) |-> EvaluateCondition(columns, closes, cond, i)])

\* evaluate_rules(df, rules): it raises when a call of evaluate_condition
\* in its loop does
EvaluateRulesCall(columns, closes, rules) ==
    IF \E n \in 1..Len(rules) : ConditionRaises(columns, rules[n]) THEN Raised
    ELSE Returned([i \in 1..Len(closes) |-> EvaluateRules(columns, closes, rules, i)])

\* no run is in progress
NoRun ==
    /\ data = <<>>
    /\ request \in Requests
    /\ strategy_logic = NoLogic
    /\ pc = "call"
    /\ pathway = "none"
    /\ df = <<>>
    /\ k = 1
    /\ position = <<>>
    /\ trades = <<>>
    /\ backtester = NewBacktester(DefaultCapital)

InitEvaluator ==
    /\ NoRun
    /\ \E c \in EvaluatorCalls : call = <<c>>
    /\ result = <<>>

CallEvaluateCondition ==
    /\ pc = "call"
    /\ call[1].fn = "evaluate_condition"
    /\ result' = <<EvaluateConditionCall(FrameColumns, call[1].closes, call[1].rules[1])>>
    /\ pc' = "returned"
    /\ UNCHANGED <<data, request, strategy_logic, pathway, df, k, position, trades, call, backtester>>

CallEvaluateRules ==
    /\ pc = "call"
    /\ call[1].fn = "evaluate_rules"
    /\ result' = <<EvaluateRulesCall(FrameColumns, call[1].closes, call[1].rules)>>
    /\ pc' = "returned"
    /\ UNCHANGED <<data, request, strategy_logic, pathway, df, k, position, trades, call, backtester>>

NextEvaluator ==
    \/ CallEvaluateCondition
    \/ CallEvaluateRules

SpecEvaluator == InitEvaluator /\ [][NextEvaluator]_vars

\* the call of fn has returned or raised
Called(fn) == pc = "returned" /\ call[1].fn = fn

\* the series of an operand on the frame of the call
OperandSeries(operand) ==
    [j \in 1..Len(call[1].closes) |-> OperandAt(FrameColumns, call[1].closes, operand, j)]

\* C12: evaluate_condition is total: with any comparator and any operands,
\* strings that name no column included, it does not raise and returns a
\* boolean series of the frame's length.
C12_EvaluateConditionTotal ==
    Called("evaluate_condition") =>
        /\ ~result[1].raised
        /\ Len(result[1].series) = Len(call[1].closes)
        /\ \A i \in 1..Len(result[1].series) : result[1].series[i] \in BOOLEAN

\* C13: evaluate_rules returns a boolean series of the frame's length, true
\* at row i iff the rule list is not empty and every condition of it holds
\* at i (all False for the empty list).
C13_EvaluateRulesIsConjunction ==
    Called("evaluate_rules") =>
        /\ ~result[1].raised
        /\ Len(result[1].series) = Len(call[1].closes)
        /\ \A i \in 1..Len(result[1].series) :
              result[1].series[i] =
                 (/\ call[1].rules # <<>>
                  /\ ~\E n \in 1..Len(call[1].rules) :
                        ~EvaluateCondition(FrameColumns, call[1].closes, call[1].rules[n], i))

\* C14: crosses_above(a, b) is true at row i iff i is not the first row and
\* a[i-1] <= b[i-1] and a[i] > b[i]; crosses_below(a, b) iff i is not the
\* first row and a[i-1] >= b[i-1] and a[i] < b[i]; both are False, not an
\* error, on the first row and wherever a value is undefined.
C14_CrossesDefinition ==
    (Called("evaluate_condition")
        /\ call[1].rules[1].operator \in {"crosses_above", "crosses_below"}) =>
        LET cond == call[1].rules[1]
            a == OperandSeries(cond.left)
            b == OperandSeries(cond.right)
        IN  /\ ~result[1].raised
            /\ \A i \in 1..Len(result[1].series) :
                  result[1].series[i] =
                     IF cond.operator = "crosses_above"
                     THEN i > 1 /\ Le(a[i - 1], b[i - 1]) /\ Gt(a[i], b[i])
                     ELSE i > 1 /\ Ge(a[i - 1], b[i - 1]) /\ Lt(a[i], b[i])


----------------------------------------------------------------------------
(* PerformanceAnalyzer called directly                                     *)

\* candles of the list an analyzer call is given, at most
MaxCandles == 3

\* trades in the list an analyzer call is given, at most
MaxTrades == 2

\* points of the series an analyzer call is given, at most
MaxPoints == 3

\* initial_capital of the analyzer
Capitals == {1, 2}

\* the pnl of a trade
Pnls == {-2, -1, 1}

\* the values of an equity or return series
SeriesValues == -2..2

\* n candles, strictly ascending in time (the analyzer reads only time)
AnalyzerCandles(n) == [i \in 1..n |-> [time |-> 60 * i]]

\* the trade dicts (the analyzer reads only exit_time and pnl); an exit_time
\* beyond the last candle matches no candle
AnalyzerTrades ==
    SeqsOf([exit_time : {60 * i : i \in 1..MaxCandles}, pnl : Pnls], 0, MaxTrades)

\* the arguments of the calls: an analyzer with its trades and candles, or
\* a series
AnalyzerCalls ==
    {[kind |-> "trades", capital |-> c, trades |-> trs, candles |-> AnalyzerCandles(n)] :
        c \in Capitals, trs \in AnalyzerTrades, n \in 1..MaxCandles}
    \cup
    {[kind |-> "series", series |-> xs] : xs \in SeqsOf(SeriesValues, 0, MaxPoints)}

\* a series of integers as floats
AsFloats(xs) == [i \in 1..Len(xs) |-> XInt(xs[i])]

\* what a call returned
Value(fn, value) == [fn |-> fn, value |-> value]

InitAnalyzer ==
    /\ NoRun
    /\ \E c \in AnalyzerCalls : call = <<c>>
    /\ result = <<>>

\* calculate_equity_curve(trades, candles)
CallEquityCurve ==
    /\ pc = "call"
    /\ call[1].kind = "trades"
    /\ result' = <<Value("calculate_equity_curve",
                        [curve   |-> EquityCurve(call[1].trades, call[1].candles, call[1].capital),
                         returns |-> Returns(call[1].trades, call[1].candles, call[1].capital)])>>
    /\ pc' = "returned"
    /\ UNCHANGED <<data, request, strategy_logic, pathway, df, k, position, trades, call, backtester>>

\* calculate_all_metrics(trades, candles)
CallAllMetrics ==
    /\ pc = "call"
    /\ call[1].kind = "trades"
    /\ result' = <<Value("calculate_all_metrics",
                        AllMetrics(call[1].trades, call[1].candles, call[1].capital))>>
    /\ pc' = "returned"
    /\ UNCHANGED <<data, request, strategy_logic, pathway, df, k, position, trades, call, backtester>>

\* calculate_profit_factor(trades)
CallProfitFactor ==
    /\ pc = "call"
    /\ call[1].kind = "trades"
    /\ result' = <<Value("calculate_profit_factor", ProfitFactor(call[1].trades))>>
    /\ pc' = "returned"
    /\ UNCHANGED <<data, request, strategy_logic, pathway, df, k, position, trades, call, backtester>>

\* calculate_drawdown_series(equity_curve), the series being the equity
CallDrawdownSeries ==
    /\ pc = "call"
    /\ call[1].kind = "series"
    /\ result' = <<Value("calculate_drawdown_series", DrawdownPct(call[1].series))>>
    /\ pc' = "returned"
    /\ UNCHANGED <<data, request, strategy_logic, pathway, df, k, position, trades, call, backtester>>

\* calculate_sharpe_ratio(returns), the series being the returns
CallSharpeRatio ==
    /\ pc = "call"
    /\ call[1].kind = "series"
    /\ result' = <<Value("calculate_sharpe_ratio", SharpeRatio(AsFloats(call[1].series)))>>
    /\ pc' = "returned"
    /\ UNCHANGED <<data, request, strategy_logic, pathway, df, k, position, trades, call, backtester>>

\* calculate_sortino_ratio(returns), the series being the returns
CallSortinoRatio ==
    /\ pc = "call"
    /\ call[1].kind = "series"
    /\ result' = <<Value("calculate_sortino_ratio", SortinoRatio(AsFloats(call[1].series)))>>
    /\ pc' = "returned"
    /\ UNCHANGED <<data, request, strategy_logic, pathway, df, k, position, trades, call, backtester>>

NextAnalyzer ==
    \/ CallEquityCurve
    \/ CallAllMetrics
    \/ CallProfitFactor
    \/ CallDrawdownSeries
    \/ CallSharpeRatio
    \/ CallSortinoRatio

SpecAnalyzer == InitAnalyzer /\ [][NextAnalyzer]_vars

\* the call of fn has returned
Gave(fn) == pc = "returned" /\ result[1].fn = fn


\* the trades of an analyzer call that exit on a candle at or before t
ExitedBy(t) ==
    {n \in 1..Len(call[1].trades) :
        \E j \in 1..t : call[1].candles[j].time = call[1].trades[n].exit_time}

\* C15: calculate_equity_curve gives one point per candle with
\* equity[t] = initial_capital + the pnl of all trades whose exit_time is the
\* time of a candle at or before t (trades exiting on one candle sum), so
\* equity is initial_capital before the first exit; returns[0] = 0.
C15_EquityCurve ==
    Gave("calculate_equity_curve") =>
        LET out == result[1].value
            trs == call[1].trades
        IN  /\ Len(out.curve) = Len(call[1].candles)
            /\ \A t \in 1..Len(out.curve) :
                  /\ out.curve[t].time = call[1].candles[t].time
                  /\ out.curve[t].equity =
                        call[1].capital +
                        SumRange([n \in 1..Len(trs) |->
                                     IF n \in ExitedBy(t) THEN trs[n].pnl ELSE 0],
                                 1, Len(trs))
                  /\ ExitedBy(t) = {} => out.curve[t].equity = call[1].capital
            /\ out.returns[1] = XInt(0)

\* two trades exit on the same candle, after a candle without an exit
C15_Witness ==
    /\ Gave("calculate_equity_curve")
    /\ Len(call[1].trades) = 2
    /\ call[1].trades[1].exit_time = call[1].trades[2].exit_time
    /\ ExitedBy(1) = {}
    /\ ExitedBy(Len(call[1].candles)) # {}

\* C16: every result run returns has exactly one equity point and one
\* drawdown point per input candle, in candle order, with the candle's time.
C16_OnePointPerCandle ==
    (pc = "done" /\ result # <<>>) =>
        /\ Len(result[1].equity_curve) = Len(data)
        /\ Len(result[1].drawdown_series) = Len(data)
        /\ \A i \in 1..Len(result[1].equity_curve) :
              result[1].equity_curve[i].time = data[i].time
        /\ \A i \in 1..Len(result[1].drawdown_series) :
              result[1].drawdown_series[i].time = data[i].time

\* C17: for an equity curve with a positive value, every drawdown_pct of
\* calculate_drawdown_series is <= 0 and neither NaN nor infinite.
C17_DrawdownNonPositive ==
    (Gave("calculate_drawdown_series")
        /\ \E i \in 1..Len(call[1].series) : call[1].series[i] > 0) =>
        /\ Len(result[1].value) = Len(call[1].series)
        /\ \A i \in 1..Len(result[1].value) :
              /\ XIsFinite(result[1].value[i])
              /\ ~XGt(result[1].value[i], XInt(0))

\* the series of a call has no two different values
Constant(xs) == \A i, j \in 1..Len(xs) : xs[i] = xs[j]

\* C18: calculate_sharpe_ratio returns exactly 0 for an empty return series,
\* a single point and a series of standard deviation 0, and its result is
\* never the outcome of a division by zero; calculate_all_metrics without
\* trades, which is what a run without trades reports, gives sharpe_ratio 0.
C18_SharpeZeroWhenDegenerate ==
    /\ Gave("calculate_sharpe_ratio") =>
          /\ Constant(call[1].series) => result[1].value = XInt(0)
          /\ ~XIsNaN(result[1].value) /\ ~XIsInf(result[1].value)
    /\ (Gave("calculate_all_metrics") /\ call[1].trades = <<>>) =>
          result[1].value.sharpe_ratio = XInt(0)

\* the Sharpe ratio of several equal returns other than 0 was asked for
C18_Witness ==
    /\ Gave("calculate_sharpe_ratio")
    /\ Len(call[1].series) > 1
    /\ Constant(call[1].series)
    /\ call[1].series[1] # 0

\* C19: calculate_sharpe_ratio and calculate_sortino_ratio return finite
\* numbers, never NaN or an infinity, for every finite return series and for
\* the returns of an equity curve that reaches 0.
C19_RatiosFinite ==
    /\ Gave("calculate_sharpe_ratio") => XIsFinite(result[1].value)
    /\ Gave("calculate_sortino_ratio") => XIsFinite(result[1].value)
    /\ Gave("calculate_all_metrics") =>
          /\ XIsFinite(result[1].value.sharpe_ratio)
          /\ XIsFinite(result[1].value.sortino_ratio)

\* the metrics of an equity curve that falls to 0 and rises again were asked
\* for: one return is -1 and the next is infinite
C19_Witness ==
    /\ Gave("calculate_all_metrics")
    /\ \E i \in 2..(Len(call[1].candles) - 1) :
          /\ result[1].value.equity_curve[i].equity = 0
          /\ result[1].value.equity_curve[i - 1].equity > 0
          /\ result[1].value.equity_curve[i + 1].equity > 0

\* C20: calculate_profit_factor returns gross_profit / |gross_loss| when a
\* trade has a negative pnl; otherwise gross_profit when that is positive
\* and 0 when it is not (the empty list included); the result is >= 0 and
\* never the outcome of a division by zero.
C20_ProfitFactor ==
    Gave("calculate_profit_factor") =>
        LET trs    == call[1].trades
            wins   == {n \in 1..Len(trs) : trs[n].pnl > 0}
            losses == {n \in 1..Len(trs) : trs[n].pnl < 0}
            profit == SumRange([n \in 1..Len(trs) |-> IF n \in wins THEN trs[n].pnl ELSE 0],
                               1, Len(trs))
            loss   == SumRange([n \in 1..Len(trs) |-> IF n \in losses THEN -trs[n].pnl ELSE 0],
                               1, Len(trs))
        IN  /\ losses # {} => result[1].value = XFin(profit, loss)
            /\ losses = {} => result[1].value = XInt(IF profit > 0 THEN profit ELSE 0)
            /\ XIsFinite(result[1].value)
            /\ ~XLt(result[1].value, XInt(0))

\* the profit factor of winning trades only was asked for
C20_Witness ==
    /\ Gave("calculate_profit_factor")
    /\ call[1].trades # <<>>
    /\ \A n \in 1..Len(call[1].trades) : call[1].trades[n].pnl > 0


----------------------------------------------------------------------------
(* Runs on one Backtester instance: called one after another or while      *)
(* another run is in progress. In this specification call holds the runs   *)
(* begun so far (arguments and local variables of each) and result the     *)
(* outcomes in the order the runs ended.                                   *)

\* runs of a session, at most
MaxRuns == 2

\* initial_capital of an instance and of a request, other than the default
OtherCapital == 5000

SessionRequest(capital) == [sma_fast |-> 2, sma_slow |-> 10, initial_capital |-> capital]

\* the leading-row shape with the given period
PatternOf(period) == CHOOSE pat \in Patterns : Len(pat) = period

\* what the runs of a session are called with: the default pathway (one
\* trade), the dynamic pathway (two trades), a candle list one row short,
\* and a strategy specification on which the run raises
SessionInputs ==
    { [data           |-> Candles(20, PatternOf(6), <<>>, 2),
       request        |-> SessionRequest(OtherCapital),
       strategy_logic |-> NoLogic],
      [data           |-> Candles(20, PatternOf(4), <<>>, 1),
       request        |-> SessionRequest(DefaultCapital),
       strategy_logic |-> RsiOversold(<<ExitRule(50)>>)],
      [data           |-> Candles(19, PatternOf(6), <<>>, 2),
       request        |-> SessionRequest(DefaultCapital),
       strategy_logic |-> NoLogic],
      [data           |-> Candles(20, PatternOf(6), <<>>, 2),
       request        |-> SessionRequest(DefaultCapital),
       strategy_logic |-> Logic(<<Indicator("RSI", 12)>>,
                                <<EntryRule("rsi", "oversold", 50)>>, <<>>)] }

\* NewTrades as a list kept from the run that ended last
NewTradesKept == IF result = <<>> THEN <<>> ELSE
                 IF result[Len(result)].outcome = <<>> THEN <<>>
                 ELSE result[Len(result)].outcome[1].trades

\* `trades: list[Trade] = []`: the list a run collects its trades in
NewTrades == <<>>

\* the arguments and local variables of a run that has just been called;
\* given is what the caller passed, as it was at the call
NewRun(input) ==
    [given          |-> input,
     data           |-> input.data,
     request        |-> input.request,
     strategy_logic |-> input.strategy_logic,
     pc             |-> "start",
     pathway        |-> "none",
     df             |-> <<>>,
     k              |-> 1,
     position       |-> <<>>,
     trades         |-> <<>>]

InitSession ==
    /\ data = <<>>
    /\ request \in Requests
    /\ strategy_logic = NoLogic
    /\ pc = "session"
    /\ pathway = "none"
    /\ df = <<>>
    /\ k = 1
    /\ position = <<>>
    /\ trades = <<>>
    /\ call = <<>>
    /\ result = <<>>
    /\ backtester \in {NewBacktester(DefaultCapital), NewBacktester(OtherCapital)}

\* backtester.run(data, request, strategy_logic) is called
SessionCall ==
    /\ pc = "session"
    /\ Len(call) < MaxRuns
    /\ \E input \in SessionInputs : call' = Append(call, NewRun(input))
    /\ UNCHANGED <<data, request, strategy_logic, pc, pathway, df, k, position, trades,
                   result, backtester>>

\* run r returns _empty_result
SessionInsufficient(r) ==
    /\ call[r].pc = "start"
    /\ Insufficient(call[r].data, call[r].request)
    /\ call' = [call EXCEPT ![r].pc = "done"]
    /\ result' = Append(result, [run |-> r, outcome |-> <<EmptyResult(call[r].request)>>])
    /\ UNCHANGED <<data, request, strategy_logic, pc, pathway, df, k, position, trades,
                   backtester>>

\* run r enters _strategy_sma_crossover, up to its loop
SessionDefault(r) ==
    /\ call[r].pc = "start"
    /\ ~Insufficient(call[r].data, call[r].request)
    /\ ~UsesDynamic(call[r].strategy_logic)
    /\ call' = [call EXCEPT ![r].pc = "loop",
                            ![r].pathway = "default",
                            ![r].df = DefaultFrame(call[r].data, call[r].request),
                            ![r].trades = NewTrades]
    /\ UNCHANGED <<data, request, strategy_logic, pc, pathway, df, k, position, trades,
                   result, backtester>>

\* run r enters _execute_dynamic_strategy, up to its loop
SessionDynamic(r) ==
    /\ call[r].pc = "start"
    /\ ~Insufficient(call[r].data, call[r].request)
    /\ UsesDynamic(call[r].strategy_logic)
    /\ ~DynamicRaises(call[r].strategy_logic, call[r].request)
    /\ call' = [call EXCEPT ![r].pc = "loop",
                            ![r].pathway = "dynamic",
                            ![r].df = DynamicFrame(call[r].data, call[r].strategy_logic,
                                                   call[r].request),
                            ![r].trades = NewTrades]
    /\ UNCHANGED <<data, request, strategy_logic, pc, pathway, df, k, position, trades,
                   result, backtester>>

\* run r raises while evaluating the entry conditions
SessionRaises(r) ==
    /\ call[r].pc = "start"
    /\ ~Insufficient(call[r].data, call[r].request)
    /\ UsesDynamic(call[r].strategy_logic)
    /\ DynamicRaises(call[r].strategy_logic, call[r].request)
    /\ call' = [call EXCEPT ![r].pc = "raised", ![r].pathway = "dynamic"]
    /\ result' = Append(result, [run |-> r, outcome |-> <<>>])
    /\ UNCHANGED <<data, request, strategy_logic, pc, pathway, df, k, position, trades,
                   backtester>>

\* one iteration of the loop of run r
SessionStep(r) ==
    /\ call[r].pc = "loop"
    /\ call[r].k <= Len(call[r].df)
    /\ LET run   == call[r]
           after == IF run.pathway = "dynamic"
                    THEN DynamicRowStep(run.position, run.trades, run.df[run.k],
                                        StopLossPct(run.strategy_logic.exit_rules))
                    ELSE DefaultRowStep(run.position, run.trades, run.df[run.k])
       IN  call' = [call EXCEPT ![r].position = after.position,
                                ![r].trades = after.trades,
                                ![r].k = run.k + 1]
    /\ UNCHANGED <<data, request, strategy_logic, pc, pathway, df, k, position, trades,
                   result, backtester>>

\* the loop of run r is over: analytics, _build_result, return
SessionReturn(r) ==
    /\ call[r].pc = "loop"
    /\ call[r].k > Len(call[r].df)
    /\ call' = [call EXCEPT ![r].pc = "done"]
    /\ result' = Append(result,
                        [run     |-> r,
                         outcome |-> <<BuildResult(call[r].request, call[r].trades,
                                                   call[r].data)>>])
    /\ UNCHANGED <<data, request, strategy_logic, pc, pathway, df, k, position, trades,
                   backtester>>

NextSession ==
    \/ SessionCall
    \/ \E r \in 1..Len(call) :
          \/ SessionInsufficient(r)
          \/ SessionDefault(r)
          \/ SessionDynamic(r)
          \/ SessionRaises(r)
          \/ SessionStep(r)
          \/ SessionReturn(r)

SpecSession == InitSession /\ [][NextSession]_vars

\* every run that has ended gave what a run with its arguments gives on a
\* Backtester of its own, and no run has changed its caller's arguments
OutcomesDependOnArgumentsOnly ==
    /\ \A i \in 1..Len(result) :
          LET given == call[result[i].run].given
          IN  result[i].outcome = RunOf(given.data, given.request, given.strategy_logic)
    /\ \A r \in 1..Len(call) :
          /\ call[r].data = call[r].given.data
          /\ call[r].strategy_logic = call[r].given.strategy_logic
          /\ call[r].request = call[r].given.request

\* C21: Backtester holds no cross-run state: whatever the instance was
\* constructed with and whatever runs came before it or are in progress
\* beside it, a run gives the result its own (candles, request, strategy
\* specification) give on a fresh Backtester; no step of a run changes the
\* instance, and a run leaves the caller's candle list and strategy
\* specification as they were.
C21_NoCrossRunState ==
    []OutcomesDependOnArgumentsOnly /\ [][backtester' = backtester]_vars

\* two runs that were in progress at the same time have both returned
\* trades, the one called first returning last
C21_Witness ==
    /\ Len(result) = 2
    /\ result[1].run = 2 /\ result[2].run = 1
    /\ call[2].k > 1 /\ call[1].trades # <<>> /\ call[2].trades # <<>>
    /\ call[1].given # call[2].given
    /\ result[2].outcome # <<>> /\ result[2].outcome[1].trades # <<>>


\* every candle of the run has the same close
FlatCloses == \A i, j \in 1..Len(data) : data[i].close = data[j].close

\* C22: on a candle list whose close is constant, of any length, the
\* default pathway meets no crossover: it opens no position and produces no
\* trade, and every point of the equity curve, and final_equity, is
\* initial_capital.
C22_FlatSeriesNoTrades ==
    (FlatCloses /\ ~UsesDynamic(strategy_logic)) =>
        /\ trades = <<>> /\ position = <<>>
        /\ \A i \in 2..Len(data) :
              /\ ~SmaCrossesAbove(request, CloseOf(data), i)
              /\ ~SmaCrossesBelow(request, CloseOf(data), i)
        /\ \A n \in 1..Len(df) : df[n].crossover \notin {2, -2}
        /\ pc = "done" =>
              /\ result # <<>>
              /\ result[1].trades = <<>> /\ result[1].total_trades = 0
              /\ \A n \in 1..Len(result[1].equity_curve) :
                    result[1].equity_curve[n].equity = Capital(request)
              /\ result[1].final_equity = Capital(request)

\* the default pathway has gone through a flat candle list longer than the
\* minimum and returned
C22_Witness ==
    /\ pc = "done" /\ pathway = "default" /\ FlatCloses
    /\ Len(data) > request.sma_slow + WarmupMargin
    /\ k > Len(df) /\ Len(df) > WarmupMargin
    /\ Len(result[1].equity_curve) = Len(data)


\* the pnl of a trade before round(pnl, 4), in ticks
FullPnl(t) == t.exit_price - t.entry_price

\* round(x, 2) of a value x held in ticks; the result counts 10^-4
Round2Ticks(x) == RoundDiv(x * 625, 409600) * 100

\* the sum of the full-precision pnl of the trades whose pnl has a sign
FullPnlSum(trs, signs) ==
    SumRange([n \in 1..Len(trs) |->
                 IF Sign(FullPnl(trs[n])) \in signs THEN FullPnl(trs[n]) ELSE 0],
             1, Len(trs))

\* C23: rounding happens only at the boundary of the result: total_return,
\* final_equity, gross profit and loss and the win and loss counts of a
\* result are those of the full-precision pnl of its trades (price
\* differences), rounded once to 2 decimals where they are amounts.
C23_RoundingAtBoundaryOnly ==
    (pc = "done" /\ result # <<>>) =>
        LET trs == result[1].trades
        IN  /\ result[1].total_return = Round2Ticks(FullPnlSum(trs, {-1, 0, 1}))
            /\ result[1].final_equity =
                  Capital(request) + Round2Ticks(FullPnlSum(trs, {-1, 0, 1}))
            /\ result[1].gross_profit = Round2Ticks(FullPnlSum(trs, {1}))
            /\ result[1].gross_loss = Round2Ticks(FullPnlSum(trs, {-1}))
            /\ result[1].winning_trades =
                  Cardinality({n \in 1..Len(trs) : FullPnl(trs[n]) > 0})
            /\ result[1].losing_trades =
                  Cardinality({n \in 1..Len(trs) : FullPnl(trs[n]) < 0})


----------------------------------------------------------------------------
(* IndicatorFactory called directly                                        *)

\* rows of the frame an indicator call is given, at most
MaxBars == 4

\* the close values of those frames
BarCloses == {1, 2, 3}

\* the periods of those calls
Periods == {1, 2, 3}

\* the calls: sma(df, period) and rsi(df, period)
IndicatorCalls ==
    {[fn |-> fn, closes |-> c, period |-> p] :
        fn \in {"sma", "rsi"}, c \in SeqsOf(BarCloses, 1, MaxBars), p \in Periods}

InitIndicator ==
    /\ NoRun
    /\ \E c \in IndicatorCalls : call = <<c>>
    /\ result = <<>>

\* IndicatorFactory.sma(df, period)
CallSma ==
    /\ pc = "call"
    /\ call[1].fn = "sma"
    /\ result' = <<[i \in 1..Len(call[1].closes) |->
                      Sma(call[1].closes, call[1].period, i)]>>
    /\ pc' = "returned"
    /\ UNCHANGED <<data, request, strategy_logic, pathway, df, k, position, trades, call,
                   backtester>>

\* IndicatorFactory.rsi(df, period)
CallRsi ==
    /\ pc = "call"
    /\ call[1].fn = "rsi"
    /\ result' = <<[i \in 1..Len(call[1].closes) |->
                      Rsi(call[1].closes, call[1].period, i)]>>
    /\ pc' = "returned"
    /\ UNCHANGED <<data, request, strategy_logic, pathway, df, k, position, trades, call,
                   backtester>>

NextIndicator ==
    \/ CallSma
    \/ CallRsi

SpecIndicator == InitIndicator /\ [][NextIndicator]_vars

\* the `period` deltas that end at row i of the call are all defined (the
\* first row has none) and none of them is a loss
NoLossWindow(i) ==
    /\ i - call[1].period + 1 >= 2
    /\ \A j \in (i - call[1].period + 1)..i : call[1].closes[j] >= call[1].closes[j - 1]

\* C24: rsi is exactly 100, and neither NaN nor infinite, at every row
\* whose trailing window of `period` deltas is fully defined and has average
\* loss zero, whether the average gain is positive or zero (flat window).
C24_RsiHundredWithoutLoss ==
    Called("rsi") =>
        \A i \in 1..Len(call[1].closes) :
            NoLossWindow(i) => result[1][i] = Val(100, 1)


----------------------------------------------------------------------------
(* POST /api/backtest (src/backend/main.py, run_backtest). In this         *)
(* specification call holds the request body and what the data provider    *)
(* does when asked for its candles, result the response.                   *)

\* symbols of the requests
Symbols == {"BTCUSDT", "BTC/USDT", "ETHBTC"}

\* "/" not in symbol; symbol.endswith("USDT"); symbol[:-4] + "/" + symbol[-4:]
NormalSymbol(symbol) == IF symbol = "BTCUSDT" THEN "BTC/USDT" ELSE symbol

\* what data_service.fetch_ohlcv does: it raises one of the ccxt errors it
\* lets through, or returns a candle list (empty, too short for a run, or
\* long enough)
Provided ==
    {[raises |-> e, candles |-> <<>>] : e \in {"NetworkError", "ExchangeError"}}
      \cup {[raises |-> "", candles |-> Candles(n, pat, <<>>, 2)] :
               n \in {0, 19, 20, 21}, pat \in Patterns}

HandlerCalls ==
    {[symbol |-> sym, request |-> SessionRequest(c), provided |-> p] :
        sym \in Symbols, c \in {DefaultCapital, OtherCapital}, p \in Provided}

\* raise HTTPException(status_code, detail)
HTTPException(status, detail) ==
    [class |-> "HTTPException", status |-> status, detail |-> detail]

\* the except clauses of run_backtest, in order, for an exception raised in
\* the try block: ccxt.NetworkError, ccxt.ExchangeError, Exception (which an
\* HTTPException is)
Handled(exc) ==
    CASE exc.class = "NetworkError" ->
            HTTPException(503, <<"Unable to fetch market data. Please try again.">>)
      [] exc.class = "ExchangeError" ->
            HTTPException(400, <<"Invalid symbol or request", exc>>)
      [] OTHER ->
            HTTPException(500, <<"Backtest engine error", exc>>)

\* the response FastAPI sends for an HTTPException that leaves the handler
ErrorResponse(exc) == [status |-> exc.status, detail |-> exc.detail, body |-> <<>>]

InitHandler ==
    /\ data = <<>>
    /\ request \in Requests
    /\ strategy_logic = NoLogic
    /\ pc = "request"
    /\ pathway = "none"
    /\ df = <<>>
    /\ k = 1
    /\ position = <<>>
    /\ trades = <<>>
    /\ backtester = NewBacktester(DefaultCapital)
    /\ \E c \in HandlerCalls : call = <<c>>
    /\ result = <<>>

\* fetch_ohlcv raises
HandlerFetchRaises ==
    /\ pc = "request"
    /\ call[1].provided.raises # ""
    /\ result' = <<ErrorResponse(Handled([class |-> call[1].provided.raises]))>>
    /\ pc' = "responded"
    /\ UNCHANGED <<data, request, strategy_logic, pathway, df, k, position, trades, call,
                   backtester>>

\* fetch_ohlcv returns no candle: `if not data: raise HTTPException(404)`
HandlerNoData ==
    /\ pc = "request"
    /\ call[1].provided.raises = ""
    /\ call[1].provided.candles = <<>>
    /\ result' = <<ErrorResponse(Handled(
                      HTTPException(404, <<"No data available for",
                                           NormalSymbol(call[1].symbol)>>)))>>
    /\ pc' = "responded"
    /\ UNCHANGED <<data, request, strategy_logic, pathway, df, k, position, trades, call,
                   backtester>>

\* fetch_ohlcv returns candles: backtester.run(data, request_copy), return
HandlerRuns ==
    /\ pc = "request"
    /\ call[1].provided.raises = ""
    /\ call[1].provided.candles # <<>>
    /\ result' = <<[status |-> 200,
                    detail |-> <<>>,
                    body   |-> RunOf(call[1].provided.candles, call[1].request, NoLogic)]>>
    /\ pc' = "responded"
    /\ UNCHANGED <<data, request, strategy_logic, pathway, df, k, position, trades, call,
                   backtester>>

NextHandler ==
    \/ HandlerFetchRaises
    \/ HandlerNoData
    \/ HandlerRuns

SpecHandler == InitHandler /\ [][NextHandler]_vars

\* C25: whenever the data provider returns an empty candle list the handler
\* of POST /api/backtest responds with HTTP 404 "No data available for
\* <symbol>"; its own exception handling turns that into no other status.
C25_NoDataIs404 ==
    (/\ pc = "responded"
     /\ call[1].provided.raises = ""
     /\ call[1].provided.candles = <<>>) =>
        /\ result[1].status = 404
        /\ result[1].detail = <<"No data available for", NormalSymbol(call[1].symbol)>>


\* the position and the trades after the first n rows of the run's loop
LoopAfter(n) ==
    IF pathway = "dynamic"
    THEN DynamicLoop(df, n, StopLossPct(strategy_logic.exit_rules))
    ELSE DefaultLoop(df, n)

\* the rows processed so far on which a position was opened (FLAT to OPEN)
EntryRows ==
    {j \in 1..(k - 1) : LoopAfter(j - 1).position = <<>> /\ LoopAfter(j).position # <<>>}

\* a trade is emitted exactly by a step that closes the open position, and
\* the return emits none
TradePerClose ==
    /\ (Len(trades') = Len(trades) + 1) <=> (position # <<>> /\ position' = <<>>)
    /\ Len(trades') \in {Len(trades), Len(trades) + 1}
    /\ SubSeq(trades', 1, Len(trades)) = trades

\* the trades are the entries, less the one whose position is still open;
\* a returned result holds these trades and nothing of an open position
OpenPositionDiscarded ==
    Looping =>
        /\ Len(trades) = Cardinality(EntryRows) - (IF position # <<>> THEN 1 ELSE 0)
        /\ (pc = "done" /\ result # <<>>) =>
              /\ result[1].trades = trades
              /\ result[1].total_trades = Len(trades)
              /\ \A n \in 1..Len(trades) :
                    position # <<>> => trades[n].entry_time # position[1].entry_time
              /\ result[1].equity_curve[Len(data)].equity =
                    Capital(request) + TotalPnl(trades)
              /\ result[1].total_return = Round2(TotalPnl(trades))
              /\ result[1].winning_trades + result[1].losing_trades <= Len(trades)

\* C26: in both pathways a position still open after the last row is
\* discarded: it emits no trade and adds nothing to the equity curve,
\* total_trades or the other metrics; the trades are the OPEN to FLAT
\* transitions, as many as the entries or one less.
C26_OpenPositionDiscarded == []OpenPositionDiscarded /\ [][TradePerClose]_vars

\* a run has returned trades while a position opened later was still open
C26_Witness ==
    /\ pc = "done" /\ result # <<>>
    /\ position # <<>> /\ trades # <<>>
    /\ Cardinality(EntryRows) = Len(result[1].trades) + 1


\* other values of an exit rule's condition, take_profit_pct and
\* trailing_stop
ExitRuleAlternates ==
    { [condition |-> "RSI overbought", take_profit_pct |-> 0, trailing_stop |-> FALSE],
      [condition |-> "", take_profit_pct |-> 10, trailing_stop |-> TRUE],
      [condition |-> "golden cross", take_profit_pct |-> 50, trailing_stop |-> TRUE] }

\* the strategy specifications that differ from logic only in the
\* condition, take_profit_pct or trailing_stop of one exit rule
ExitRuleVariants(logic) ==
    {[logic EXCEPT !.exit_rules[n].condition = alt.condition,
                   !.exit_rules[n].take_profit_pct = alt.take_profit_pct,
                   !.exit_rules[n].trailing_stop = alt.trailing_stop] :
        n \in 1..Len(logic.exit_rules), alt \in ExitRuleAlternates}

\* the stop_loss_pct of the last exit rule that carries a non-zero one (0:
\* there is none)
LastStopLossPct(exit_rules) ==
    LET carrying == {n \in 1..Len(exit_rules) : exit_rules[n].stop_loss_pct # 0}
    IN  IF carrying = {} THEN 0
        ELSE exit_rules[CHOOSE n \in carrying : \A m \in carrying : m <= n].stop_loss_pct

----------------------------------------------------------------------------
(* Two runs on the same candles whose strategy specifications differ in    *)
(* the exit rules only. In this specification call holds the other         *)
(* strategy specification and result the results of the two runs.          *)

\* trailing rows of those candle lists whose close is chosen freely
MaxTail == 3

InitVariants ==
    /\ request \in Requests
    /\ \E sc \in Scenarios, pat \in Patterns :
         \E suf \in [1..MaxTail -> Closes] :
            /\ sc.logic.exit_rules # <<>>
            /\ ~DynamicRaises(sc.logic, request)
            /\ strategy_logic = sc.logic
            /\ data = Candles(request.sma_slow + WarmupMargin, pat, suf, sc.low_factor)
            /\ \E other \in ExitRuleVariants(sc.logic) : call = <<other>>
    /\ pc = "call"
    /\ pathway = "none"
    /\ df = <<>>
    /\ k = 1
    /\ position = <<>>
    /\ trades = <<>>
    /\ result = <<>>
    /\ backtester = NewBacktester(DefaultCapital)

\* run(data, request, strategy_logic) and run(data, request, other)
RunBoth ==
    /\ pc = "call"
    /\ result' = RunOf(data, request, strategy_logic) \o RunOf(data, request, call[1])
    /\ pc' = "returned"
    /\ UNCHANGED <<data, request, strategy_logic, pathway, df, k, position, trades, call,
                   backtester>>

NextVariants == RunBoth

SpecVariants == InitVariants /\ [][NextVariants]_vars

\* C27: in the dynamic pathway the exit rules act through stop_loss_pct
\* only (that of the last rule carrying a non-zero one): a strategy
\* specification that differs only in an exit rule's condition,
\* take_profit_pct or trailing_stop gives the same trade list on the same
\* candles, and the exit signal of row i is true iff the entry signal was
\* true at i-1 and is false at i.
C27_ExitRulesOnlyStopLoss ==
    pc = "returned" =>
        /\ Len(result) = 2
        /\ result[1].trades = result[2].trades
        /\ StopLossPct(strategy_logic.exit_rules) = LastStopLossPct(strategy_logic.exit_rules)
        /\ StopLossPct(call[1].exit_rules) = LastStopLossPct(strategy_logic.exit_rules)
        /\ \A i \in 1..Len(data) :
              ExitSignal(call[1], request, CloseOf(data), i) =
                 (/\ i > 1
                  /\ EntrySignal(strategy_logic, request, CloseOf(data), i - 1)
                  /\ ~EntrySignal(strategy_logic, request, CloseOf(data), i))

\* two strategies with two exit rules each, the last stop_loss_pct not being
\* the first, one of them with an exit condition and a take-profit, have
\* returned trades
C27_Witness ==
    /\ pc = "returned"
    /\ Len(strategy_logic.exit_rules) = 2
    /\ LastStopLossPct(strategy_logic.exit_rules) # strategy_logic.exit_rules[1].stop_loss_pct
    /\ \E n \in 1..2 : /\ call[1].exit_rules[n].condition # ""
                       /\ call[1].exit_rules[n].take_profit_pct # 0
    /\ result[1].trades # <<>>

-----------------------------------------------------------------------------
(* The fallback of the dynamic pathway against the default pathway         *)

\* the run took the dynamic pathway with the SMA crossover fallback as its
\* entry condition and no stop-loss
FallbackWithoutStopLoss ==
    /\ NoUsableEntryCondition
    /\ StopLossPct(strategy_logic.exit_rules) = 0

\* C28: when the dynamic pathway falls back to the SMA crossover entry
\* condition and no stop-loss is configured, the run returns the same trade
\* list as the default pathway on the same candles and the same
\* sma_fast/sma_slow.
C28_FallbackMatchesDefault ==
    (pc = "done" /\ result # <<>> /\ FallbackWithoutStopLoss) =>
        result[1].trades = DefaultTrades(data, request)

-----------------------------------------------------------------------------
(* Trade counts of a result                                                *)

\* the number of trades of a list with the given status
WithStatus(trs, status) == Cardinality({n \in 1..Len(trs) : trs[n].status = status})

\* C29: in every result of run, winning_trades is the number of trades whose
\* status is win, losing_trades the number whose status is loss, and
\* total_trades = winning_trades + losing_trades + the breakeven trades.
C29_CountsMatchStatus ==
    (pc = "done" /\ result # <<>>) =>
        LET out == result[1]
        IN  /\ out.winning_trades = WithStatus(out.trades, "win")
            /\ out.losing_trades = WithStatus(out.trades, "loss")
            /\ out.total_trades = out.winning_trades + out.losing_trades
                                    + WithStatus(out.trades, "breakeven")

-----------------------------------------------------------------------------
(* Trades on the equity curve of a result                                  *)

\* the candles of the run whose time is t
CandlesAt(t) == {i \in 1..Len(data) : data[i].time = t}

\* the run had enough candles and has returned
ReturnedFromLoop == pc = "done" /\ result # <<>> /\ ~Insufficient(data, request)

\* C30: in every run on enough candles, the exit_time of every returned trade
\* is the time of exactly one candle, the equity at each candle is the
\* initial capital plus the pnl of the trades that exited at or before it
\* (each pnl counted once), and final_equity = initial_capital + total_return
\* up to the rounding of the output.
C30_PnlAppliedOnce ==
    ReturnedFromLoop =>
        LET out   == result[1]
            trs   == out.trades
            curve == out.equity_curve
            last  == curve[Len(curve)].equity
        IN  /\ \A n \in 1..Len(trs) : Cardinality(CandlesAt(trs[n].exit_time)) = 1
            /\ Len(curve) = Len(data)
            /\ \A i \in 1..Len(curve) :
                  curve[i].equity =
                      Capital(request) +
                      SumRange([n \in 1..Len(trs) |->
                                   IF \E j \in 1..i : j \in CandlesAt(trs[n].exit_time)
                                   THEN trs[n].pnl ELSE 0],
                               1, Len(trs))
            /\ last = Capital(request) + TotalPnl(trs)
            /\ out.final_equity = Round2(last)
            /\ out.total_return = Round2(TotalPnl(trs))
            /\ Abs(out.final_equity - (Capital(request) + out.total_return)) <= 100

\* a run has returned two trades with a non-zero total, the first of them
\* closed before the last candle
C30_Witness ==
    /\ ReturnedFromLoop
    /\ Len(result[1].trades) >= 2
    /\ TotalPnl(result[1].trades) # 0
    /\ result[1].trades[1].pnl # 0
    /\ result[1].trades[1].exit_time < data[Len(data)].time
    /\ result[1].final_equity # Capital(request)

====
